---- MODULE Spec2Model ----
(***************************************************************************)
(* A model of the RAG chatbot backend: the in-memory VectorStore           *)
(* (src/unnamed/part_003), the Express handlers and the ChatRouter         *)
(* (src/backend/server.js) and the LLMService (src/unnamed/part_002).      *)
(*                                                                         *)
(* JavaScript strings are sequences of one-character strings, so that      *)
(* toLowerCase, includes, split and the template literals are computed     *)
(* and not assumed.  Node runs one continuation at a time: every action    *)
(* below is the code that runs between two awaits of one call.             *)
(*                                                                         *)
(* Scores are exact rationals with denominator ScoreScale; the code's      *)
(* IEEE doubles are idealised to exact arithmetic.                         *)
(***************************************************************************)
EXTENDS Integers, Sequences, FiniteSets, TLC

(***************************************************************************)
(* Strings                                                                 *)
(***************************************************************************)
LowerLetters ==
    <<"a","b","c","d","e","f","g","h","i","j","k","l","m","n","o","p","q","r","s","t","u","v","w","x","y","z">>

UpperLetters ==
    <<"A","B","C","D","E","F","G","H","I","J","K","L","M","N","O","P","Q","R","S","T","U","V","W","X","Y","Z">>

DigitChars ==
    <<"0","1","2","3","4","5","6","7","8","9">>

Range(s) == { s[i] : i \in DOMAIN s }

Min(a, b) == IF a < b THEN a ELSE b

Max(a, b) == IF a > b THEN a ELSE b

\* String.prototype.toLowerCase on one ASCII character.
ToLowerChar(c) ==
    IF \E i \in DOMAIN UpperLetters : UpperLetters[i] = c
    THEN LowerLetters[CHOOSE i \in DOMAIN UpperLetters : UpperLetters[i] = c]
    ELSE c

\* String.prototype.toLowerCase.
ToLowerCase(s) == [i \in DOMAIN s |-> ToLowerChar(s[i])]

\* The regular expression class \w: [A-Za-z0-9_].
IsWordChar(c) ==
    c \in Range(LowerLetters) \cup Range(UpperLetters) \cup Range(DigitChars) \cup {"_"}

\* The regular expression class \s, for the white space the model's texts use.
IsSpaceChar(c) == c \in {" ", "\n", "\t", "\r"}

\* String.prototype.includes: sub occurs in s as a contiguous substring.
Includes(s, sub) ==
    \E i \in 0..(Len(s) - Len(sub)) : SubSeq(s, i + 1, i + Len(sub)) = sub

\* String.prototype.substring(0, n).
Substring0(s, n) == SubSeq(s, 1, Min(Len(s), n))

\* The decimal digits of a natural number, as `${n}` renders it.
RECURSIVE DecimalString(_)
DecimalString(n) ==
    IF n < 10 THEN <<DigitChars[n + 1]>>
    ELSE DecimalString(n \div 10) \o <<DigitChars[(n % 10) + 1]>>

\* Array.prototype.join(' ') of two words.
JoinSpace(a, b) == a \o <<" ">> \o b

\* text.replace(/[^\w\s]/g, ' '): every character that is neither a word
\* character nor white space becomes a space.
ReplaceNonWord(s) ==
    [i \in DOMAIN s |-> IF IsWordChar(s[i]) \/ IsSpaceChar(s[i]) THEN s[i] ELSE " "]

\* String.prototype.split(/\s+/): the pieces between maximal runs of white
\* space; a leading or trailing run yields an empty piece, as in JavaScript.
RECURSIVE SplitFrom(_, _, _, _)
SplitFrom(s, i, cur, inRun) ==
    IF i > Len(s) THEN <<cur>>
    ELSE IF IsSpaceChar(s[i])
         THEN IF inRun THEN SplitFrom(s, i + 1, cur, TRUE)
              ELSE <<cur>> \o SplitFrom(s, i + 1, <<>>, TRUE)
         ELSE SplitFrom(s, i + 1, Append(cur, s[i]), FALSE)

SplitWhitespace(s) == SplitFrom(s, 1, <<>>, FALSE)

\* The stop words of extractKeywords.
stopWords ==
    { <<"t","h","e">>,
     <<"a">>,
     <<"a","n">>,
     <<"a","n","d">>,
     <<"o","r">>,
     <<"b","u","t">>,
     <<"i","n">>,
     <<"o","n">>,
     <<"a","t">>,
     <<"t","o">>,
     <<"f","o","r">>,
     <<"o","f">>,
     <<"w","i","t","h">>,
     <<"b","y">>,
     <<"f","r","o","m">>,
     <<"i","s">>,
     <<"a","r","e">>,
     <<"w","a","s">>,
     <<"w","e","r","e">>,
     <<"b","e">>,
     <<"b","e","e","n">>,
     <<"b","e","i","n","g">>,
     <<"h","a","v","e">>,
     <<"h","a","s">>,
     <<"h","a","d">>,
     <<"d","o">>,
     <<"d","o","e","s">>,
     <<"d","i","d">>,
     <<"w","i","l","l">>,
     <<"w","o","u","l","d">>,
     <<"c","o","u","l","d">>,
     <<"s","h","o","u","l","d">>,
     <<"m","a","y">>,
     <<"m","i","g","h","t">>,
     <<"m","u","s","t">>,
     <<"s","h","a","l","l">>,
     <<"c","a","n">>,
     <<"n","e","e","d">>,
     <<"i","t">>,
     <<"i","t","s">>,
     <<"t","h","i","s">>,
     <<"t","h","a","t">>,
     <<"t","h","e","s","e">>,
     <<"t","h","o","s","e">>,
     <<"i">>,
     <<"y","o","u">>,
     <<"h","e">>,
     <<"s","h","e">>,
     <<"w","e">>,
     <<"t","h","e","y">>,
     <<"w","h","a","t">>,
     <<"w","h","i","c","h">>,
     <<"w","h","o">>,
     <<"w","h","e","n">>,
     <<"w","h","e","r","e">>,
     <<"w","h","y">>,
     <<"h","o","w">>,
     <<"a","l","l">>,
     <<"e","a","c","h">>,
     <<"e","v","e","r","y">>,
     <<"b","o","t","h">>,
     <<"f","e","w">>,
     <<"m","o","r","e">>,
     <<"m","o","s","t">>,
     <<"o","t","h","e","r">>,
     <<"s","o","m","e">>,
     <<"s","u","c","h">>,
     <<"n","o">>,
     <<"n","o","r">>,
     <<"n","o","t">>,
     <<"o","n","l","y">>,
     <<"o","w","n">>,
     <<"s","a","m","e">>,
     <<"s","o">>,
     <<"t","h","a","n">>,
     <<"t","o","o">>,
     <<"v","e","r","y">>,
     <<"j","u","s","t">>,
     <<"a","s">>,
     <<"i","f">>,
     <<"t","h","e","n">>,
     <<"b","e","c","a","u","s","e">>,
     <<"w","h","i","l","e">>,
     <<"a","l","t","h","o","u","g","h">> }

(***************************************************************************)
(* VectorStore.extractKeywords                                             *)
(***************************************************************************)
\* The number of keywords extractKeywords keeps: .slice(0, 20).
MaxKeywords == 20

\* The tokens of a text: lower-cased, punctuation blanked, split on white
\* space, tokens of length <= 2 and stop words dropped.
KeywordTokens(text) ==
    LET Keep(w) == Len(w) > 2 /\ w \notin stopWords
    IN  SelectSeq(SplitWhitespace(ReplaceNonWord(ToLowerCase(text))), Keep)

\* wordFreq[word] after the counting loop.
WordFreq(words, w) == Cardinality({ i \in DOMAIN words : words[i] = w })

\* The tokens in the order of their first appearance, each once.
RECURSIVE FirstAppearance(_)
FirstAppearance(words) ==
    IF words = <<>> THEN <<>>
    ELSE LET h == Head(words)
             Other(w) == w # h
         IN  <<h>> \o FirstAppearance(SelectSeq(Tail(words), Other))

\* A property key that JavaScript treats as an array index is a canonical
\* decimal numeral below 2^32 - 1.  Object.entries lists these keys first, in
\* ascending numeric order, whatever the order they were inserted in.
DigitValue(c) == (CHOOSE i \in DOMAIN DigitChars : DigitChars[i] = c) - 1

\* a < b for two canonical decimal numerals: the shorter is the smaller, and
\* numerals of one length compare digit by digit.
NumeralLess(a, b) ==
    \/ Len(a) < Len(b)
    \/ /\ Len(a) = Len(b)
       /\ \E i \in DOMAIN a :
            /\ DigitValue(a[i]) < DigitValue(b[i])
            /\ \A j \in 1..(i - 1) : a[j] = b[j]

\* 2^32 - 1, the first numeral that is no array index.
MaxArrayIndexNumeral == <<"4","2","9","4","9","6","7","2","9","5">>

IsArrayIndexKey(w) ==
    /\ w # <<>>
    /\ \A i \in DOMAIN w : w[i] \in Range(DigitChars)
    /\ (w[1] # "0" \/ Len(w) = 1)
    /\ NumeralLess(w, MaxArrayIndexNumeral)

\* Insert key w into a list of array-index keys kept in ascending order.
RECURSIVE InsertAscending(_, _)
InsertAscending(keys, w) ==
    IF keys = <<>> THEN <<w>>
    ELSE IF NumeralLess(w, Head(keys)) THEN <<w>> \o keys
    ELSE <<Head(keys)>> \o InsertAscending(Tail(keys), w)

RECURSIVE SortAscending(_)
SortAscending(keys) ==
    IF keys = <<>> THEN <<>>
    ELSE InsertAscending(SortAscending(Tail(keys)), Head(keys))

\* Object.entries(wordFreq): the keys of the frequency object in property
\* order (array-index keys ascending, then the others as inserted).
ObjectKeys(words) ==
    LET first == FirstAppearance(words)
        IsIdx(w) == IsArrayIndexKey(w)
        NotIdx(w) == ~IsArrayIndexKey(w)
    IN  SortAscending(SelectSeq(first, IsIdx)) \o SelectSeq(first, NotIdx)

\* Array.prototype.sort((a, b) => b[1] - a[1]) on [key, count] entries: a
\* stable sort by descending count.  Insert e behind every entry whose count
\* is at least e's.
RECURSIVE InsertByFreq(_, _, _)
InsertByFreq(sorted, e, words) ==
    IF sorted = <<>> THEN <<e>>
    ELSE IF WordFreq(words, Head(sorted)) >= WordFreq(words, e)
         THEN <<Head(sorted)>> \o InsertByFreq(Tail(sorted), e, words)
         ELSE <<e>> \o sorted

RECURSIVE SortByFreq(_, _)
SortByFreq(keys, words) ==
    IF keys = <<>> THEN <<>>
    ELSE InsertByFreq(SortByFreq(SubSeq(keys, 1, Len(keys) - 1), words),
                      keys[Len(keys)], words)

extractKeywords(text) ==
    LET words == KeywordTokens(text)
        sorted == SortByFreq(ObjectKeys(words), words)
    IN  SubSeq(sorted, 1, Min(Len(sorted), MaxKeywords))


(***************************************************************************)
(* Bounds of the model                                                     *)
(***************************************************************************)
\* How many addDocument calls (uploads) a run makes.
MaxDocs == 2

(***************************************************************************)
(* The uploads: what DocumentProcessor hands to addDocument                *)
(***************************************************************************)
\* The chunk object createChunks builds: its id is the template literal
\* `${metadata.filename}-chunk-${chunkIndex}`.
MakeChunk(filename, chunkIndex, content) ==
    [ id       |-> filename \o <<"-","c","h","u","n","k","-">> \o DecimalString(chunkIndex),
      content  |-> content,
      metadata |-> [filename |-> filename, chunkIndex |-> chunkIndex] ]

ChunksOf(filename, contents) ==
    [i \in DOMAIN contents |-> MakeChunk(filename, i - 1, contents[i])]

\* VectorStore.batchSize.
batchSize == 20

TextCatsPurr == <<"C","a","t","s"," ","p","u","r","r",".">>

TextCatsNap == <<"c","a","t","s"," ","n","a","p">>

TextDogsBark == <<"d","o","g","s"," ","b","a","r","k">>

NameA == <<"a",".","t","x","t">>

NameB == <<"b",".","t","x","t">>

NameE == <<"e",".","t","x","t">>

\* The files a client uploads: an empty file (no chunk), a two-chunk file
\* about cats, and a file about dogs with one chunk more than a batch holds.
Files ==
    [ A |-> [name |-> NameA, chunks |-> ChunksOf(NameA, <<TextCatsPurr, TextCatsNap>>)],
      B |-> [name |-> NameB, chunks |-> ChunksOf(NameB, [i \in 1..(batchSize + 1) |-> TextDogsBark])],
      E |-> [name |-> NameE, chunks |-> <<>>] ]

FileKeys == DOMAIN Files

QueryCats == <<"c","a","t","s">>

QueryDogs == <<"D","o","g","s"," ","b","a","r","k","?">>

\* The queries of the search requests.
SearchQueries == {QueryCats, QueryDogs}

\* autoDetectMode's documentKeywords.
documentKeywords ==
    << <<"d","o","c","u","m","e","n","t">>,
       <<"f","i","l","e">>,
       <<"u","p","l","o","a","d","e","d">>,
       <<"s","a","y","s">>,
       <<"m","e","n","t","i","o","n","e","d">>,
       <<"a","c","c","o","r","d","i","n","g"," ","t","o">>,
       <<"i","n"," ","t","h","e">>,
       <<"f","r","o","m"," ","t","h","e">>,
       <<"b","a","s","e","d"," ","o","n">>,
       <<"w","h","a","t"," ","d","o","e","s">>,
       <<"f","i","n","d">>,
       <<"s","e","a","r","c","h">>,
       <<"l","o","o","k"," ","f","o","r">>,
       <<"l","o","c","a","t","e">>,
       <<"e","x","t","r","a","c","t">>,
       <<"s","u","m","m","a","r","i","z","e">>,
       <<"s","u","m","m","a","r","y">> >>

\* String.prototype.toUpperCase on one ASCII character.
ToUpperChar(c) ==
    IF \E i \in DOMAIN LowerLetters : LowerLetters[i] = c
    THEN UpperLetters[CHOOSE i \in DOMAIN LowerLetters : LowerLetters[i] = c]
    ELSE c

\* A text with its first letter in upper case.
Capitalize(s) == [i \in DOMAIN s |-> IF i = 1 THEN ToUpperChar(s[i]) ELSE s[i]]

QueryHello == <<"H","e","l","l","o">>

QueryProfile == <<"p","r","o","f","i","l","e">>

\* The messages of the chat requests: a greeting, a word of document A, a
\* word that holds the hint term "file" inside it, and every hint term with
\* a capital first letter.
ChatQueries ==
    {QueryHello, QueryCats, QueryProfile}
    \cup { Capitalize(documentKeywords[i]) : i \in DOMAIN documentKeywords }

\* The mode a chat request asks for.
RequestedModes == {"auto", "rag", "general"}

\* The topK values of hybridSearch's callers: the relevance probe (1) and the
\* default (8).
TopKs == {1, 8}

\* vectorSearch's default topK.
VectorTopK == 5

(***************************************************************************)
(* The embedding model and the scores                                      *)
(***************************************************************************)
\* Scores are counted in units of 1/ScoreScale.
ScoreScale == 12 * 1000

\* generateEmbedding truncates its text: text.substring(0, 512).
EmbedMaxChars == 512

\* The embedding model is outside the repository.  It returns L2-normalised
\* vectors (normalize: true); the model's vectors have five integer
\* components and norm 4 or 5, so that square roots and cosines are exact
\* (the cosine does not depend on the norms).
VecAxis == <<4, 0, 0, 0, 0>>

VecQuarter == <<1, 3, 2, 1, 1>>

VecOrthogonal == <<0, 4, 0, 0, 0>>

VecOpposite == <<-4, 0, 0, 0, 0>>

VecFifth == <<1, 4, 2, 2, 0>>

UnitVectors == {VecAxis, VecQuarter, VecFifth, VecOrthogonal, VecOpposite}

\* Every text the model embeds, as truncated by the callers.
EmbedTexts ==
    { Substring0(Files[f].chunks[i].content, EmbedMaxChars) :
          <<f, i>> \in { <<g, j>> \in FileKeys \X (1..(batchSize + 1)) : j <= Len(Files[g].chunks) } }
    \cup { Substring0(q, EmbedMaxChars) : q \in SearchQueries \cup ChatQueries }

\* The chunk contents among them.
ContentTexts ==
    { Substring0(Files[f].chunks[i].content, EmbedMaxChars) :
          <<f, i>> \in { <<g, j>> \in FileKeys \X (1..(batchSize + 1)) : j <= Len(Files[g].chunks) } }

\* Embedding models that map every chunk to one vector and every query to
\* another: the cosine of a query and a chunk is 1, 1/4, 1/5, 0 or -1.
ChatEmbedders ==
    { [t \in EmbedTexts |-> IF t \in ContentTexts THEN VecAxis ELSE queryVector] :
          queryVector \in UnitVectors }

\* An embedding model that separates the texts about cats from the others.
EmbedderBySubject ==
    [t \in EmbedTexts |-> IF Includes(ToLowerCase(t), <<"c","a","t">>) THEN VecAxis ELSE VecOrthogonal]

RECURSIVE SumTo(_, _)
SumTo(f, n) == IF n = 0 THEN 0 ELSE f[n] + SumTo(f, n - 1)

\* Math.sqrt on the perfect squares the model's vectors produce.
Isqrt(n) == CHOOSE r \in 0..n : r * r <= n /\ n < (r + 1) * (r + 1)

cosineSimilarity(a, b) ==
    LET dotProduct == SumTo([i \in DOMAIN a |-> a[i] * b[i]], Len(a))
        normA == SumTo([i \in DOMAIN a |-> a[i] * a[i]], Len(a))
        normB == SumTo([i \in DOMAIN a |-> b[i] * b[i]], Len(a))
    IN  (dotProduct * ScoreScale) \div (Isqrt(normA) * Isqrt(normB))

keywordMatch(queryKeywords, chunkKeywords) ==
    LET matches == SelectSeq(queryKeywords, LAMBDA kw : kw \in Range(chunkKeywords))
    IN  (Len(matches) * ScoreScale) \div Max(Len(queryKeywords), 1)

\* The weights and steps of hybridSearch, in score units.
WordBoost == (5 * ScoreScale) \div 100

PhraseBoost == (10 * ScoreScale) \div 100

BoostCap == (15 * ScoreScale) \div 100

\* importantWords = queryKeywords.slice(0, 5).
ImportantWordCount == 5

\* The phraseBoost hybridSearch accumulates for one chunk.
phraseBoostOf(queryKeywords, content) ==
    LET contentLower == ToLowerCase(content)
        importantWords == SubSeq(queryKeywords, 1, Min(Len(queryKeywords), ImportantWordCount))
        found == SelectSeq(importantWords, LAMBDA word : Includes(contentLower, word))
        twoWordPhrase == JoinSpace(importantWords[1], importantWords[2])
    IN  Len(found) * WordBoost
        + (IF Len(importantWords) >= 2 /\ Includes(contentLower, twoWordPhrase)
           THEN PhraseBoost ELSE 0)

\* A slip: the vector score enters the sum with its full weight.
combinedScoreUnweighted(vectorScore, keywordScore, phraseBoost) ==
    vectorScore + (keywordScore * 25) \div 100 + Min(phraseBoost, BoostCap)

\* combinedScore = vectorScore * 0.6 + keywordScore * 0.25 + min(phraseBoost, 0.15).
combinedScore(vectorScore, keywordScore, phraseBoost) ==
    (vectorScore * 6) \div 10 + (keywordScore * 25) \div 100 + Min(phraseBoost, BoostCap)

\* The result object hybridSearch builds for one chunk.
ScoredChunk(chunk, queryEmbedding, queryKeywords) ==
    LET vectorScore == cosineSimilarity(queryEmbedding, chunk.embedding)
        keywordScore == keywordMatch(queryKeywords, chunk.keywords)
        phraseBoost == phraseBoostOf(queryKeywords, chunk.content)
    IN  [ id           |-> chunk.id,
          content      |-> chunk.content,
          metadata     |-> chunk.metadata,
          docId        |-> chunk.docId,
          vectorScore  |-> vectorScore,
          keywordScore |-> keywordScore,
          phraseBoost  |-> phraseBoost,
          score        |-> combinedScore(vectorScore, keywordScore, phraseBoost) ]

\* results.sort((a, b) => b.score - a.score): Array.prototype.sort is stable,
\* so a result goes behind every result whose score is at least its own.
RECURSIVE InsertByScoreUnstable(_, _)
\* A slip: a sort that is not stable, a result goes before its equals.
InsertByScoreUnstable(sorted, r) ==
    IF sorted = <<>> THEN <<r>>
    ELSE IF Head(sorted).score > r.score
         THEN <<Head(sorted)>> \o InsertByScoreUnstable(Tail(sorted), r)
         ELSE <<r>> \o sorted

RECURSIVE InsertByScore(_, _)
InsertByScore(sorted, r) ==
    IF sorted = <<>> THEN <<r>>
    ELSE IF Head(sorted).score >= r.score
         THEN <<Head(sorted)>> \o InsertByScore(Tail(sorted), r)
         ELSE <<r>> \o sorted

\* A slip: the results are returned in index order, unsorted.
SortByScoreNone(results) == results

RECURSIVE SortByScore(_)
SortByScore(results) ==
    IF results = <<>> THEN <<>>
    ELSE InsertByScore(SortByScore(SubSeq(results, 1, Len(results) - 1)),
                       results[Len(results)])

\* What hybridSearch computes from the chunk list once the query embedding
\* has arrived: map, sort, slice(0, topK).
HybridResults(chunkList, queryEmbedding, query, topK) ==
    LET queryKeywords == extractKeywords(query)
        results == [i \in DOMAIN chunkList |->
                       ScoredChunk(chunkList[i], queryEmbedding, queryKeywords)]
        sorted == SortByScore(results)
    IN  SubSeq(sorted, 1, Min(Len(sorted), topK))

\* The same for vectorSearch: every chunk with its similarity, sorted.
RECURSIVE InsertBySimilarity(_, _)
InsertBySimilarity(sorted, r) ==
    IF sorted = <<>> THEN <<r>>
    ELSE IF Head(sorted).similarity >= r.similarity
         THEN <<Head(sorted)>> \o InsertBySimilarity(Tail(sorted), r)
         ELSE <<r>> \o sorted

RECURSIVE SortBySimilarity(_)
SortBySimilarity(results) ==
    IF results = <<>> THEN <<>>
    ELSE InsertBySimilarity(SortBySimilarity(SubSeq(results, 1, Len(results) - 1)),
                            results[Len(results)])

VectorResults(chunkList, queryEmbedding, topK) ==
    LET results == [i \in DOMAIN chunkList |->
                       [ id         |-> chunkList[i].id,
                         docId      |-> chunkList[i].docId,
                         similarity |-> cosineSimilarity(queryEmbedding, chunkList[i].embedding) ]]
        sorted == SortBySimilarity(results)
    IN  SubSeq(sorted, 1, Min(Len(sorted), topK))

(***************************************************************************)
(* The state                                                               *)
(***************************************************************************)
VARIABLES
    documents,    \* VectorStore.documents: the Map's entries in insertion order
    chunks,       \* VectorStore.chunks
    embedder,     \* VectorStore.embedder: "null" or "pipeline"
    initialized,  \* VectorStore.initialized
    initPromise,  \* VectorStore.initPromise: "null", "pending", "fulfilled", "rejected"
    embedFn,      \* the function the loaded embedding model computes
    adds,         \* the addDocument calls made so far; call d adds document id d
    search,       \* the search call that is waiting for its query embedding
    evicted,      \* history: removeDocument or clear has taken something out
    chat,         \* the POST /api/chat request that is being routed
    turns,        \* the POST /api/chat requests made on conversations so far
    conversations,\* the conversation objects created so far, and whether the Map holds them
    currentModel, \* LLMService.currentModel
    apiKeys,      \* the hosted providers whose API key the environment holds
    loads,        \* history: how many times pipeline(...) has been called
    embeds,       \* the direct generateEmbedding / generateEmbeddingsBatch calls so far
    upload,       \* the POST /api/documents/upload request that is being served
    chunker,      \* the createChunks call: its text, and its chunks once it has returned
    keywordCall,  \* the extractKeywords call: its text, and its keywords once it has returned
    res           \* what the step just taken returned to its caller

storeVars == <<documents, chunks, embedder, initialized, initPromise, embedFn>>

turnVars == <<turns, conversations, currentModel, apiKeys>>

embedVars == <<loads, embeds>>

uploadVars == <<upload, chunker, keywordCall>>

chatVars == <<chat, turnVars, embedVars, uploadVars>>

vars == <<documents, chunks, embedder, initialized, initPromise, embedFn,
          adds, search, evicted, chat, turns, conversations, currentModel,
          apiKeys, loads, embeds, upload, chunker, keywordCall,
          res>>

NoCall == [pc |-> "idle"]

NoResponse == [op |-> "none"]

\* No upload request is being served; served counts the requests so far.
NoUpload == [pc |-> "idle", served |-> 0]

(***************************************************************************)
(* LLMService: the models table and the choice of the provider             *)
(***************************************************************************)
\* The ids of LLMService.models.
ModelIds ==
    { "ollama-llama3.2", "ollama-llama3.2-3b", "deepseek-chat", "deepseek-coder",
      "gpt-3.5-turbo", "gpt-4", "gpt-4-turbo", "local-simple" }

\* The provider of each entry of LLMService.models.
ProviderOf(modelId) ==
    CASE modelId \in {"ollama-llama3.2", "ollama-llama3.2-3b"} -> "ollama"
      [] modelId \in {"deepseek-chat", "deepseek-coder"} -> "deepseek"
      [] modelId \in {"gpt-3.5-turbo", "gpt-4", "gpt-4-turbo"} -> "openai"
      [] modelId = "local-simple" -> "local"

\* The hosted providers: this.deepseek and this.openai are clients when the
\* environment holds an API key of more than 10 characters, and null otherwise.
HostedProviders == {"deepseek", "openai"}

\* LLMService.models, as the constructor builds it from the API keys.
models(keys) ==
    [ modelId \in ModelIds |->
        [ provider  |-> ProviderOf(modelId),
          available |-> IF ProviderOf(modelId) \in HostedProviders
                        THEN ProviderOf(modelId) \in keys
                        ELSE TRUE ] ]

\* The constructor ends with this.currentModel = 'ollama-llama3.2', whatever
\* DEFAULT_MODEL says.
DefaultModel == "ollama-llama3.2"

\* generateResponse: the provider that is called for the current model;
\* "local" is generateLocalResponse.
GatewayProvider(modelId, keys) ==
    LET model == models(keys)[modelId]
    IN  IF model.provider = "ollama" THEN "ollama"
        ELSE IF model.provider = "deepseek" /\ "deepseek" \in keys THEN "deepseek"
        ELSE IF model.provider = "openai" /\ "openai" \in keys THEN "openai"
        ELSE "local"

\* The model ids POST /api/models/set is called with; the last is not in the
\* table.
SetModelInputs == {"ollama-llama3.2", "deepseek-chat", "gpt-4", "local-simple", "llama-70b"}

\* POST /api/models/set: LLMService.setModel(model).
setModel(modelId) ==
    /\ IF modelId \notin ModelIds
       THEN /\ res' = [op |-> "setModel", status |-> 400, error |-> "Unknown model"]
            /\ UNCHANGED currentModel
       ELSE IF ~models(apiKeys)[modelId].available
       THEN /\ res' = [op |-> "setModel", status |-> 400, error |-> "Model not available"]
            /\ UNCHANGED currentModel
       ELSE /\ res' = [op |-> "setModel", status |-> 200, currentModel |-> modelId]
            /\ currentModel' = modelId
    /\ UNCHANGED <<storeVars, adds, search, evicted, chat, turns, conversations, apiKeys, embedVars, uploadVars>>

(***************************************************************************)
(* VectorStore: reads                                                      *)
(***************************************************************************)
\* this.documents.has(docId)
DocumentsHas(docs, docId) == \E i \in DOMAIN docs : docs[i].id = docId

getDocuments == documents

getDocumentCount == Len(documents)

getChunkCount == Len(chunks)

hasDocuments == Len(chunks) > 0

(***************************************************************************)
(* VectorStore.initialize and the model loader                             *)
(***************************************************************************)
\* A slip: initialize() does not look at initPromise.
InitializeStartsLoaderUnguarded(promise, isInitialized) == ~isInitialized

\* initialize() gets past its two early returns and calls pipeline(...).
InitializeStartsLoader(promise, isInitialized) ==
    IF isInitialized THEN FALSE
    ELSE IF promise # "null" THEN FALSE
    ELSE TRUE

\* The synchronous part of initialize(): nothing when the model is loaded or
\* loading, else the loader is started and its promise kept.
InitializeCall(promise, isInitialized) ==
    IF InitializeStartsLoader(promise, isInitialized) THEN "pending" ELSE promise

\* The calls of pipeline(...) after a call of initialize().
LoadsAfter(count, promise, isInitialized) ==
    IF InitializeStartsLoader(promise, isInitialized) THEN count + 1 ELSE count

\* app.listen's callback, or any caller of initialize().
initialize ==
    /\ initPromise' = InitializeCall(initPromise, initialized)
    /\ loads' = LoadsAfter(loads, initPromise, initialized)
    /\ loads' # loads
    /\ res' = NoResponse
    /\ UNCHANGED <<documents, chunks, embedder, initialized, embedFn, adds, search, evicted, chat, turnVars, embeds, uploadVars>>

\* pipeline(...) resolves: the handle is stored and initialized set.
LoaderResolve ==
    /\ initPromise = "pending"
    /\ embedder' = "pipeline"
    /\ initialized' = TRUE
    /\ initPromise' = "fulfilled"
    /\ res' = NoResponse
    /\ UNCHANGED <<documents, chunks, embedFn, adds, search, evicted, chatVars>>

\* pipeline(...) rejects: the rejected promise stays in initPromise.
LoaderReject ==
    /\ initPromise = "pending"
    /\ initPromise' = "rejected"
    /\ res' = NoResponse
    /\ UNCHANGED <<documents, chunks, embedder, initialized, embedFn, adds, search, evicted, chatVars>>

(***************************************************************************)
(* VectorStore.addDocument                                                 *)
(***************************************************************************)
\* this.embedder(text, {pooling: 'mean', normalize: true}) on a resolved call.
EmbedderOutput(text) == embedFn[text]

\* generateEmbeddingsBatch(texts) when every embedder call resolves:
\* Promise.all keeps the input order.
generateEmbeddingsBatch(texts) ==
    [j \in DOMAIN texts |-> EmbedderOutput(Substring0(texts[j], EmbedMaxChars))]

\* The batch loop's body after the await: one processed chunk per chunk of
\* the batch, carrying the embedding at the same position.
ProcessBatch(batch, docId, embeddings) ==
    [j \in DOMAIN batch |->
        [ id        |-> batch[j].id,
          content   |-> batch[j].content,
          metadata  |-> batch[j].metadata,
          docId     |-> docId,
          embedding |-> embeddings[j],
          keywords  |-> extractKeywords(batch[j].content) ]]

\* chunks.slice(i, i + this.batchSize)
BatchAt(cs, i) == SubSeq(cs, i + 1, Min(Len(cs), i + batchSize))

\* this.documents.set(docId, entry): a Map keeps a key's first position.
DocumentsSet(docs, entry) ==
    IF DocumentsHas(docs, entry.id)
    THEN [i \in DOMAIN docs |-> IF docs[i].id = entry.id THEN entry ELSE docs[i]]
    ELSE Append(docs, entry)

\* The end of addDocument: the registry entry, then the chunks.
PublishDocuments(docs, docId, name, processedChunks) ==
    DocumentsSet(docs, [id |-> docId, name |-> name, chunkCount |-> Len(processedChunks)])

\* A slip: this.chunks = processedChunks instead of push(...processedChunks).
PublishChunksOverwrite(cs, processedChunks) == processedChunks

PublishChunks(cs, processedChunks) == cs \o processedChunks

\* The call: addDocument runs to its first await, `await this.initialize()`.
\* The document id is the uuidv4() of the upload handler: a fresh one.
addDocument(f) ==
    /\ Len(adds) < MaxDocs
    /\ adds' = Append(adds, [file |-> f, pc |-> "awaitInit", i |-> 0, processedChunks |-> <<>>,
                            arrivals |-> <<>>])
    /\ initPromise' = InitializeCall(initPromise, initialized)
    /\ loads' = LoadsAfter(loads, initPromise, initialized)
    /\ res' = NoResponse
    /\ UNCHANGED <<documents, chunks, embedder, initialized, embedFn, search, evicted, chat, turnVars, embeds, uploadVars>>

\* A slip: each batch is pushed to this.chunks as soon as it is processed,
\* and only the registry entry waits for the last batch.
AddContinuePerBatch(d, i, processedChunks) ==
    LET cs == Files[adds[d].file].chunks
        batchStart == Max(i - batchSize, 0)
        processedBatch == SubSeq(processedChunks, batchStart + 1, Len(processedChunks))
    IN  IF i < Len(cs)
        THEN /\ adds' = [adds EXCEPT ![d] = [@ EXCEPT !.pc = "awaitBatch", !.i = i,
                                                      !.processedChunks = processedChunks]]
             /\ chunks' = chunks \o processedBatch
             /\ res' = NoResponse
             /\ UNCHANGED documents
        ELSE /\ documents' = PublishDocuments(documents, d, Files[adds[d].file].name, processedChunks)
             /\ chunks' = chunks \o processedBatch
             /\ adds' = [adds EXCEPT ![d] = [@ EXCEPT !.pc = "done", !.i = i,
                                                      !.processedChunks = <<>>]]
             /\ res' = [op |-> "addDocument", docId |-> d, ok |-> TRUE]

\* What runs when an await of addDocument resolves with i chunks processed:
\* the next batch is sent to the embedder, or, after the last batch, the
\* document is published and the call returns.
AddContinue(d, i, processedChunks) ==
    LET cs == Files[adds[d].file].chunks
    IN  IF i < Len(cs)
        THEN /\ adds' = [adds EXCEPT ![d] = [@ EXCEPT !.pc = "awaitBatch", !.i = i,
                                                      !.processedChunks = processedChunks]]
             /\ res' = NoResponse
             /\ UNCHANGED <<documents, chunks>>
        ELSE /\ documents' = PublishDocuments(documents, d, Files[adds[d].file].name, processedChunks)
             /\ chunks' = PublishChunks(chunks, processedChunks)
             /\ adds' = [adds EXCEPT ![d] = [@ EXCEPT !.pc = "done", !.i = i,
                                                      !.processedChunks = <<>>]]
             /\ res' = [op |-> "addDocument", docId |-> d, ok |-> TRUE]

\* `await this.initialize()` resolves.
AddAfterInit(d) ==
    /\ adds[d].pc = "awaitInit"
    /\ initPromise = "fulfilled"
    /\ AddContinue(d, 0, <<>>)
    /\ UNCHANGED <<embedder, initialized, initPromise, embedFn, search, evicted, chatVars>>

\* `await this.initialize()` rejects: addDocument throws.
AddInitFailed(d) ==
    /\ adds[d].pc = "awaitInit"
    /\ initPromise = "rejected"
    /\ adds' = [adds EXCEPT ![d] = [@ EXCEPT !.pc = "failed"]]
    /\ res' = [op |-> "addDocument", docId |-> d, ok |-> FALSE]
    /\ UNCHANGED <<documents, chunks, embedder, initialized, initPromise, embedFn, search, evicted, chatVars>>

\* `await this.generateEmbeddingsBatch(batchTexts)` resolves.
AddBatchDone(d) ==
    /\ adds[d].pc = "awaitBatch"
    /\ LET cs == Files[adds[d].file].chunks
           batch == BatchAt(cs, adds[d].i)
           batchTexts == [j \in DOMAIN batch |-> batch[j].content]
           embeddings == generateEmbeddingsBatch(batchTexts)
       IN  AddContinue(d, adds[d].i + batchSize,
                       adds[d].processedChunks \o ProcessBatch(batch, d, embeddings))
    /\ UNCHANGED <<embedder, initialized, initPromise, embedFn, search, evicted, chatVars>>

\* The embedder calls of the batch that call d waits for, by the position of
\* their chunk in the chunk list.
BatchPositions(d) ==
    (adds[d].i + 1)..Min(adds[d].i + batchSize, Len(Files[adds[d].file].chunks))

\* The calls among them that have not resolved yet.
PendingPositions(d) ==
    { p \in BatchPositions(d) : \A a \in Range(adds[d].arrivals) : a.position # p }

\* A slip: the outputs are handed over in the order the calls resolved.
PromiseAllByArrival(arrivals, positions) ==
    LET mine == SelectSeq(arrivals, LAMBDA a : a.position \in Range(positions))
    IN  [j \in DOMAIN positions |-> mine[j].output]

\* Promise.all(promises): the outputs in the order of the promises, whatever
\* the order in which they resolved.
PromiseAll(arrivals, positions) ==
    [j \in DOMAIN positions |->
        (CHOOSE a \in Range(arrivals) : a.position = positions[j]).output]

\* generateEmbeddingsBatch call by call: one embedder call of the batch
\* resolves, any of those still pending.
EmbedderCallResolves(d, p) ==
    /\ adds[d].pc = "awaitBatch"
    /\ p \in PendingPositions(d)
    /\ LET cs == Files[adds[d].file].chunks
       IN  adds' = [adds EXCEPT ![d] = [@ EXCEPT !.arrivals =
                       Append(@, [ position |-> p,
                                   output   |-> EmbedderOutput(Substring0(cs[p].content, EmbedMaxChars)) ])]]
    /\ res' = NoResponse
    /\ UNCHANGED <<storeVars, search, evicted, chatVars>>

\* Every call of the batch has resolved: Promise.all resolves,
\* generateEmbeddingsBatch returns and addDocument goes on.
BatchAllResolved(d) ==
    /\ adds[d].pc = "awaitBatch"
    /\ PendingPositions(d) = {}
    /\ LET cs == Files[adds[d].file].chunks
           batch == BatchAt(cs, adds[d].i)
           positions == [j \in DOMAIN batch |-> adds[d].i + j]
           embeddings == PromiseAll(adds[d].arrivals, positions)
       IN  AddContinue(d, adds[d].i + batchSize,
                       adds[d].processedChunks \o ProcessBatch(batch, d, embeddings))
    /\ UNCHANGED <<embedder, initialized, initPromise, embedFn, search, evicted, chatVars>>

\* An embedder call of the batch rejects: Promise.all rejects and addDocument
\* throws; processedChunks was a local.
AddBatchFailed(d) ==
    /\ adds[d].pc = "awaitBatch"
    /\ adds' = [adds EXCEPT ![d] = [@ EXCEPT !.pc = "failed", !.processedChunks = <<>>]]
    /\ res' = [op |-> "addDocument", docId |-> d, ok |-> FALSE]
    /\ UNCHANGED <<documents, chunks, embedder, initialized, initPromise, embedFn, search, evicted, chatVars>>

(***************************************************************************)
(* VectorStore.removeDocument, clear                                       *)
(***************************************************************************)
\* A slip: the filter keeps the removed document's chunks and drops the rest.
ChunksWithoutInverted(cs, docId) == SelectSeq(cs, LAMBDA c : c.docId = docId)

\* A slip: only the registry entry is deleted, the chunks stay.
ChunksWithoutKeep(cs, docId) == cs

\* this.chunks.filter(chunk => chunk.docId !== docId)
ChunksWithout(cs, docId) == SelectSeq(cs, LAMBDA c : c.docId # docId)

\* this.documents.delete(docId)
DocumentsDelete(docs, docId) == SelectSeq(docs, LAMBDA e : e.id # docId)

removeDocument(docId) ==
    /\ IF ~DocumentsHas(documents, docId)
       THEN /\ res' = [op |-> "removeDocument", docId |-> docId, ok |-> FALSE]
            /\ UNCHANGED <<documents, chunks, evicted>>
       ELSE /\ chunks' = ChunksWithout(chunks, docId)
            /\ documents' = DocumentsDelete(documents, docId)
            /\ evicted' = TRUE
            /\ res' = [op |-> "removeDocument", docId |-> docId, ok |-> TRUE]
    /\ UNCHANGED <<embedder, initialized, initPromise, embedFn, adds, search, chatVars>>

clear ==
    /\ chunks' = <<>>
    /\ documents' = <<>>
    /\ evicted' = (evicted \/ chunks # <<>> \/ documents # <<>>)
    /\ res' = [op |-> "clear"]
    /\ UNCHANGED <<embedder, initialized, initPromise, embedFn, adds, search, chatVars>>

(***************************************************************************)
(* VectorStore.hybridSearch, vectorSearch                                  *)
(***************************************************************************)
\* The call: an empty chunk list returns [] at once; else the search waits
\* for generateEmbedding(query), which calls initialize() without a handle.
SearchCall(kind, query, topK) ==
    /\ search = NoCall
    /\ IF Len(chunks) = 0
       THEN /\ res' = [op |-> kind, query |-> query, topK |-> topK, ok |-> TRUE, hits |-> <<>>]
            /\ UNCHANGED <<search, initPromise, loads>>
       ELSE /\ search' = [pc |-> "awaitEmbedding", kind |-> kind, query |-> query, topK |-> topK]
            /\ initPromise' = IF embedder = "null"
                              THEN InitializeCall(initPromise, initialized)
                              ELSE initPromise
            /\ loads' = IF embedder = "null"
                        THEN LoadsAfter(loads, initPromise, initialized)
                        ELSE loads
            /\ res' = NoResponse
    /\ UNCHANGED <<documents, chunks, embedder, initialized, embedFn, adds, evicted, chat, turnVars, embeds, uploadVars>>

hybridSearch(query, topK) == SearchCall("hybridSearch", query, topK)

vectorSearch(query, topK) == SearchCall("vectorSearch", query, topK)

\* generateEmbedding(query) resolves: the search reads this.chunks now.
SearchResume ==
    /\ search.pc = "awaitEmbedding"
    /\ embedder = "pipeline"
    /\ LET queryEmbedding == EmbedderOutput(Substring0(search.query, EmbedMaxChars))
           hits == IF search.kind = "hybridSearch"
                   THEN HybridResults(chunks, queryEmbedding, search.query, search.topK)
                   ELSE VectorResults(chunks, queryEmbedding, search.topK)
       IN  res' = [op |-> search.kind, query |-> search.query, topK |-> search.topK,
                   ok |-> TRUE, hits |-> hits]
    /\ search' = NoCall
    /\ UNCHANGED <<documents, chunks, embedder, initialized, initPromise, embedFn, adds, evicted, chatVars>>

\* generateEmbedding(query) rejects: the search throws.
SearchFailed ==
    /\ search.pc = "awaitEmbedding"
    /\ (embedder = "pipeline" \/ initPromise = "rejected")
    /\ res' = [op |-> search.kind, ok |-> FALSE]
    /\ search' = NoCall
    /\ UNCHANGED <<documents, chunks, embedder, initialized, initPromise, embedFn, adds, evicted, chatVars>>

(***************************************************************************)
(* VectorStore.generateEmbedding, generateEmbeddingsBatch called directly  *)
(***************************************************************************)
\* The number of direct calls in a behaviour.
MaxEmbeds == 2

EmbedKinds == {"generateEmbedding", "generateEmbeddingsBatch"}

\* The call: `if (!this.embedder) await this.initialize()`, else straight to
\* the call of this.embedder; handle is the value of this.embedder that is
\* called.
EmbedCall(kind) ==
    /\ Len(embeds) < MaxEmbeds
    /\ IF embedder = "null"
       THEN /\ embeds' = Append(embeds, [kind |-> kind, pc |-> "awaitInit", handle |-> "none"])
            /\ initPromise' = InitializeCall(initPromise, initialized)
            /\ loads' = LoadsAfter(loads, initPromise, initialized)
       ELSE /\ embeds' = Append(embeds, [kind |-> kind, pc |-> "awaitEmbedder", handle |-> embedder])
            /\ UNCHANGED <<initPromise, loads>>
    /\ res' = NoResponse
    /\ UNCHANGED <<documents, chunks, embedder, initialized, embedFn, adds, search, evicted, chat, turnVars, uploadVars>>

\* `await this.initialize()` resolves in direct call e: this.embedder is called.
EmbedAfterInit(e) ==
    /\ embeds[e].pc = "awaitInit"
    /\ initPromise = "fulfilled"
    /\ embeds' = [embeds EXCEPT ![e] = [@ EXCEPT !.pc = "awaitEmbedder", !.handle = embedder]]
    /\ res' = NoResponse
    /\ UNCHANGED <<storeVars, adds, search, evicted, chat, turnVars, loads, uploadVars>>

\* `await this.initialize()` rejects in direct call e: the call throws.
EmbedInitFailed(e) ==
    /\ embeds[e].pc = "awaitInit"
    /\ initPromise = "rejected"
    /\ embeds' = [embeds EXCEPT ![e] = [@ EXCEPT !.pc = "failed"]]
    /\ res' = [op |-> embeds[e].kind, ok |-> FALSE]
    /\ UNCHANGED <<storeVars, adds, search, evicted, chat, turnVars, loads, uploadVars>>

\* The call of this.embedder in direct call e settles: a null handle is a
\* TypeError, the pipeline returns its vectors.
EmbedDone(e) ==
    /\ embeds[e].pc = "awaitEmbedder"
    /\ embeds' = [embeds EXCEPT ![e] = [@ EXCEPT !.pc = IF embeds[e].handle = "pipeline"
                                                         THEN "done" ELSE "failed"]]
    /\ res' = [op |-> embeds[e].kind, ok |-> embeds[e].handle = "pipeline"]
    /\ UNCHANGED <<storeVars, adds, search, evicted, chat, turnVars, loads, uploadVars>>

(***************************************************************************)
(* DocumentProcessor.createChunks                                          *)
(*                                                                         *)
(* Only the lengths matter to the chunker.  A string of words and blanks   *)
(* is kept as the lengths of the pieces that split(' ') gives: 'ab cd '    *)
(* is <<2, 2, 0>>, ' ' is <<0, 0>> and '' is <<0>>.                        *)
(***************************************************************************)
\* DocumentProcessor.chunkSize.
chunkSize == 800

\* DocumentProcessor.chunkOverlap.
chunkOverlap == 200

EmptyString == <<0>>

Blank == <<0, 0>>

\* String.prototype.length.
StrLength(s) == SumTo(s, Len(s)) + Len(s) - 1

\* a + b on strings: the last piece of a and the first of b become one.
Concat(a, b) ==
    SubSeq(a, 1, Len(a) - 1) \o <<a[Len(a)] + b[1]>> \o SubSeq(b, 2, Len(b))

\* String.prototype.trim: the blanks at both ends go.
trim(s) ==
    IF \A i \in DOMAIN s : s[i] = 0
    THEN EmptyString
    ELSE LET first == CHOOSE i \in DOMAIN s : s[i] # 0 /\ \A j \in 1..(i - 1) : s[j] = 0
             last  == CHOOSE i \in DOMAIN s : s[i] # 0 /\ \A j \in (i + 1)..Len(s) : s[j] = 0
         IN  SubSeq(s, first, last)

\* Math.ceil(words.length * (this.chunkOverlap / this.chunkSize))
OverlapWords(words) == (Len(words) * chunkOverlap + chunkSize - 1) \div chunkSize

\* words.slice(-n), for n >= 1.
SliceLast(words, n) == SubSeq(words, Max(1, Len(words) - n + 1), Len(words))

\* The chunk pushed for currentChunk.
TextChunk(currentChunk, chunkIndex) ==
    [ chunkIndex |-> chunkIndex,
      content    |-> trim(currentChunk),
      charStart  |-> chunkIndex * (chunkSize - chunkOverlap),
      charEnd    |-> chunkIndex * (chunkSize - chunkOverlap) + StrLength(currentChunk) ]

\* A slip: a sentence that does not fit is dropped when the chunk is pushed.
ChunkSentenceLossy(st, sentence) ==
    LET cut == st.currentLength + StrLength(sentence) > chunkSize /\ st.currentChunk # EmptyString
        words == st.currentChunk
        overlap == Concat(SliceLast(words, OverlapWords(words)), Blank)
    IN  IF cut
        THEN [ currentChunk  |-> overlap,
               currentLength |-> StrLength(overlap),
               chunkIndex    |-> st.chunkIndex + 1,
               chunks        |-> Append(st.chunks, TextChunk(st.currentChunk, st.chunkIndex)) ]
        ELSE [st EXCEPT !.currentChunk = Concat(Concat(@, sentence), Blank),
                        !.currentLength = @ + StrLength(sentence) + 1]

\* One pass of the loop over the sentences; st holds the loop's variables.
ChunkSentence(st, sentence) ==
    LET cut == st.currentLength + StrLength(sentence) > chunkSize /\ st.currentChunk # EmptyString
        words == st.currentChunk
        overlap == Concat(SliceLast(words, OverlapWords(words)), Blank)
        kept == IF cut
                THEN [ currentChunk  |-> overlap,
                       currentLength |-> StrLength(overlap),
                       chunkIndex    |-> st.chunkIndex + 1,
                       chunks        |-> Append(st.chunks, TextChunk(st.currentChunk, st.chunkIndex)) ]
                ELSE st
    IN  [kept EXCEPT !.currentChunk = Concat(Concat(@, sentence), Blank),
                     !.currentLength = @ + StrLength(sentence) + 1]

RECURSIVE ChunkSentences(_, _)
\* The loop over the first n sentences.
ChunkSentences(sentences, n) ==
    IF n = 0
    THEN [currentChunk |-> EmptyString, currentLength |-> 0, chunkIndex |-> 0, chunks |-> <<>>]
    ELSE ChunkSentence(ChunkSentences(sentences, n - 1), sentences[n])

\* createChunks on the sentences that splitIntoSentences found in the text.
createChunks(sentences) ==
    LET st == ChunkSentences(sentences, Len(sentences))
    IN  IF trim(st.currentChunk) # EmptyString
        THEN Append(st.chunks, TextChunk(st.currentChunk, st.chunkIndex))
        ELSE st.chunks

\* The sentences of the texts: two short words, eight words of 99
\* characters, one word as long as a chunk, and two words of 400 characters
\* in all.
SentenceShort == <<4, 5>>

SentenceWords == [i \in 1..8 |-> 99]

SentenceWord == <<chunkSize>>

SentenceHalf == <<300, 99>>

\* Two sentences longer than a chunk: one word, and two words.
SentenceLongWord == <<chunkSize + 1>>

SentenceLong == <<500, 400>>

Sentences ==
    {SentenceShort, SentenceWords, SentenceWord, SentenceHalf, SentenceLongWord, SentenceLong}

MaxSentences == 3

\* The call returns.
CreateChunksCall ==
    /\ chunker.pc = "call"
    /\ chunker' = [pc |-> "done", sentences |-> chunker.sentences,
                   chunks |-> createChunks(chunker.sentences)]
    /\ res' = [op |-> "createChunks", chunks |-> Len(chunker'.chunks)]
    /\ UNCHANGED <<storeVars, adds, search, evicted, chat, turnVars, embedVars, upload, keywordCall>>

(***************************************************************************)
(* POST /api/documents/upload: multer, processFile, addDocument            *)
(***************************************************************************)
\* The number of upload requests in a behaviour.
MaxUploads == 2

\* The number of files in an upload request of the model.
MaxBatch == 2

\* upload.array('files', 10)
MaxFilesPerRequest == 10

\* The fileFilter's allowedTypes.
allowedTypes ==
    { "application/pdf",
      "application/vnd.openxmlformats-officedocument.wordprocessingml.document",
      "application/vnd.openxmlformats-officedocument.presentationml.presentation",
      "application/vnd.openxmlformats-officedocument.spreadsheetml.sheet",
      "text/plain", "text/markdown", "text/csv" }

ExtMd == <<".","m","d">>

\* The extensions processFile has a case for.
SupportedExts ==
    { <<".","p","d","f">>, <<".","d","o","c","x">>, <<".","x","l","s","x">>, <<".","x","l","s">>,
      <<".","p","p","t","x">>, <<".","t","x","t">>, ExtMd, <<".","m","a","r","k","d","o","w","n">>,
      <<".","c","s","v">> }

\* String.prototype.endsWith
EndsWith(s, suffix) ==
    /\ Len(suffix) <= Len(s)
    /\ SubSeq(s, Len(s) - Len(suffix) + 1, Len(s)) = suffix

\* path.extname: from the last dot of the name, "" when there is none or the
\* name starts with it.
ExtName(name) ==
    LET dots == { i \in DOMAIN name : name[i] = "." }
        last == CHOOSE i \in dots : \A j \in dots : j <= i
    IN  IF dots = {} THEN <<>>
        ELSE IF last = 1 THEN <<>>
        ELSE SubSeq(name, last, Len(name))

NameP == <<"p",".","p","n","g">>

NameX == <<"x",".","x","y","z">>

NameC == <<"c",".","p","d","f">>

NameM == <<"m",".","m","d">>

\* The files of the upload requests: a text file of two chunks, a picture, a
\* text file with an extension processFile does not know, a PDF that
\* pdf-parse cannot read, and an empty Markdown file sent as a byte stream.
UploadFiles ==
    [ A |-> [originalname |-> NameA, mimetype |-> "text/plain", extracts |-> TRUE, chunks |-> Files.A.chunks],
      P |-> [originalname |-> NameP, mimetype |-> "image/png", extracts |-> TRUE, chunks |-> <<>>],
      X |-> [originalname |-> NameX, mimetype |-> "text/plain", extracts |-> TRUE, chunks |-> <<>>],
      C |-> [originalname |-> NameC, mimetype |-> "application/pdf", extracts |-> FALSE, chunks |-> <<>>],
      M |-> [originalname |-> NameM, mimetype |-> "application/octet-stream", extracts |-> TRUE, chunks |-> <<>>] ]

\* The batches of files a request carries.
RECURSIVE SeqsUpTo(_, _)
SeqsUpTo(S, n) ==
    IF n = 0 THEN { <<>> }
    ELSE SeqsUpTo(S, n - 1) \cup { Append(s, x) : s \in { q \in SeqsUpTo(S, n - 1) : Len(q) = n - 1 }, x \in S }

UploadBatches == SeqsUpTo(DOMAIN UploadFiles, MaxBatch)

\* multer's fileFilter.
fileFilter(file) ==
    file.mimetype \in allowedTypes \/ EndsWith(file.originalname, ExtMd)

\* upload.array('files', 10) fails the request, before the handler runs, when
\* the fileFilter refuses a file or there are more than 10 files.
MulterRejects(batch) ==
    \/ \E i \in DOMAIN batch : ~fileFilter(UploadFiles[batch[i]])
    \/ Len(batch) > MaxFilesPerRequest

\* processFile(file.path, file.originalname): the chunks, or the error thrown.
processFile(file) ==
    LET ext == ToLowerCase(ExtName(file.originalname))
    IN  IF ext \notin SupportedExts THEN [ok |-> FALSE, error |-> "Unsupported file type"]
        ELSE IF ~file.extracts THEN [ok |-> FALSE, error |-> "extraction failed"]
        ELSE [ok |-> TRUE, chunks |-> file.chunks]

\* The request arrives: multer stores the files and calls the handler, or
\* fails the request (Express answers 500); the handler answers 400 to a
\* request without files.
UploadRequest(batch) ==
    /\ upload.pc = "idle"
    /\ upload.served < MaxUploads
    /\ IF MulterRejects(batch)
       THEN /\ upload' = [pc |-> "idle", served |-> upload.served + 1]
            /\ res' = [op |-> "upload", status |-> 500, files |-> batch]
       ELSE IF Len(batch) = 0
       THEN /\ upload' = [pc |-> "idle", served |-> upload.served + 1]
            /\ res' = [op |-> "upload", status |-> 400, files |-> batch]
       ELSE /\ upload' = [pc |-> "file", served |-> upload.served + 1, files |-> batch,
                          k |-> 1, results |-> <<>>]
            /\ res' = NoResponse
    /\ UNCHANGED <<storeVars, adds, search, evicted, chat, turnVars, embedVars, chunker, keywordCall>>

\* The handler's loop body for the next file: processFile, addDocument under
\* a fresh docId, and the file's result entry; after the last file the
\* response is sent.  embedded tells whether the embedder calls of addDocument
\* resolve.
UploadFile(embedded) ==
    /\ upload.pc = "file"
    /\ LET file == UploadFiles[upload.files[upload.k]]
           processed == processFile(file)
           docId == (upload.served - 1) * MaxFilesPerRequest + upload.k
           cs == IF processed.ok THEN processed.chunks ELSE <<>>
           success == processed.ok /\ embedded
           processedChunks == ProcessBatch(cs, docId, generateEmbeddingsBatch([j \in DOMAIN cs |-> cs[j].content]))
           result == IF success
                     THEN [filename |-> file.originalname, docId |-> docId, chunks |-> Len(cs),
                           status |-> "success"]
                     ELSE [filename |-> file.originalname, status |-> "error",
                           error |-> IF processed.ok THEN "embedding failed" ELSE processed.error]
           results == Append(upload.results, result)
       IN  /\ (~processed.ok \/ Len(cs) = 0) => embedded
           /\ documents' = IF success
                           THEN PublishDocuments(documents, docId, file.originalname, processedChunks)
                           ELSE documents
           /\ chunks' = IF success THEN PublishChunks(chunks, processedChunks) ELSE chunks
           /\ IF upload.k < Len(upload.files)
              THEN /\ upload' = [upload EXCEPT !.k = @ + 1, !.results = results]
                   /\ res' = NoResponse
              ELSE /\ upload' = [pc |-> "idle", served |-> upload.served]
                   /\ res' = [ op |-> "upload", status |-> 200, files |-> upload.files,
                               processed |-> Len(SelectSeq(results, LAMBDA r : r.status = "success")),
                               failed |-> Len(SelectSeq(results, LAMBDA r : r.status = "error")),
                               results |-> results,
                               totalDocuments |-> Len(documents'),
                               totalChunks |-> Len(chunks') ]
    /\ UNCHANGED <<embedder, initialized, initPromise, embedFn, adds, search, evicted, chat, turnVars, embedVars, chunker, keywordCall>>

(***************************************************************************)
(* ChatRouter and LLMService.generateRAGResponse                           *)
(***************************************************************************)
\* ChatRouter.relevanceThreshold = 0.15.
relevanceThreshold == (15 * ScoreScale) \div 100

\* handleRAGQuery's fallback filter: chunk.score >= 0.1.
fallbackThreshold == (10 * ScoreScale) \div 100

\* handleRAGQuery's hybridSearch(query, 8).
RetrievalTopK == 8

\* autoDetectMode's hybridSearch(query, 1).
ProbeTopK == 1

\* handleRAGQuery's fallbackChunks.slice(0, 5).
FallbackMaxChunks == 5

RefusalMessage ==
    "No documents have been uploaded yet. Please upload documents first to use RAG mode, or switch to General mode for open-ended questions."

NoRelevantMessage ==
    "I searched through the uploaded documents but couldn't find information directly relevant to your question. Try rephrasing your question or ask something more specific about the document content."

\* The text an LLM provider returns.
LlmAnswer == "<the LLM's completion>"

\* A field the response object does not have.
Undefined == "undefined"

\* A slip: the query is matched as typed, without toLowerCase().
IsDocumentQueryCaseSensitive(query) ==
    \E i \in DOMAIN documentKeywords : Includes(query, documentKeywords[i])

\* documentKeywords.some(kw => queryLower.includes(kw))
IsDocumentQuery(query) ==
    LET queryLower == ToLowerCase(query)
    IN  \E i \in DOMAIN documentKeywords : Includes(queryLower, documentKeywords[i])

\* A slip: the check of hasDocuments is missing.
AutoDetectBeforeProbeNoEmptyCheck(query, hasDocs) ==
    IF IsDocumentQuery(query) THEN "rag" ELSE "probe"

\* autoDetectMode up to its await: the mode, or "probe" when it goes on to
\* the relevance check.
AutoDetectBeforeProbe(query, hasDocs) ==
    IF ~hasDocs THEN "general"
    ELSE IF IsDocumentQuery(query) THEN "rag"
    ELSE "probe"

\* A slip: >= instead of >.
AutoDetectAfterProbeInclusive(results) ==
    IF Len(results) > 0 /\ results[1].score >= relevanceThreshold THEN "rag" ELSE "general"

\* autoDetectMode after the relevance check.
AutoDetectAfterProbe(results) ==
    IF Len(results) > 0 /\ results[1].score > relevanceThreshold THEN "rag" ELSE "general"

\* A slip: RAG mode is never refused.
RouteRefusesNever(requestedMode, hasDocs) == FALSE

\* route's `mode === 'rag' && !hasDocuments`.
RouteRefuses(requestedMode, hasDocs) == requestedMode = "rag" /\ ~hasDocs

\* Number.prototype.toFixed(1) of score * 100, with '%': the score in tenths
\* of a percent, rounded to the nearest (a tie goes away from zero).
PercentString(score) ==
    LET magnitude == IF score < 0 THEN -score ELSE score
        tenths == (magnitude * 1000 * 2 + ScoreScale) \div (2 * ScoreScale)
    IN  (IF score < 0 /\ tenths > 0 THEN <<"-">> ELSE <<>>)
        \o DecimalString(tenths \div 10) \o <<".">> \o DecimalString(tenths % 10) \o <<"%">>

\* generateRAGResponse's sources, one for each retrieved chunk.
FormatSources(retrievedChunks) ==
    [i \in DOMAIN retrievedChunks |->
        [ id         |-> i,
          content    |-> retrievedChunks[i].content,
          source     |-> retrievedChunks[i].metadata.filename,
          score      |-> PercentString(retrievedChunks[i].score),
          chunkIndex |-> retrievedChunks[i].metadata.chunkIndex ]]

\* The chat request while it is being routed.
ChatCall(query, requestedMode, hasDocs) ==
    [ pc            |-> "route",
      query         |-> query,
      requestedMode |-> requestedMode,
      hasDocuments  |-> hasDocs,
      mode          |-> requestedMode,
      probed        |-> FALSE,
      probe         |-> <<>>,
      hits          |-> <<>>,
      retrieved     |-> <<>>,
      retrievedCount |-> Undefined,
      searchCalls   |-> 0,
      llmCalls      |-> 0 ]

\* The response of POST /api/chat for request c.
ChatResponse(c, status, body) ==
    [ op |-> "chat", status |-> status, request |-> c, body |-> body ]

\* The request fails: the handler's catch answers 500.
ChatThrows(c) ==
    /\ res' = ChatResponse(c, 500, [error |-> "Failed to process message"])
    /\ chat' = NoCall

\* route returns body: the handler answers 200.
ChatReturns(c, body) ==
    /\ res' = ChatResponse(c, 200, body)
    /\ chat' = NoCall

\* The LLM is called with the retrieved chunks (generateRAGResponse) or
\* without context (generateGeneralResponse).
ChatCallsLlm(c, retrievedChunks, retrievedCount) ==
    /\ chat' = [c EXCEPT !.pc = "llm", !.retrieved = retrievedChunks,
                         !.retrievedCount = retrievedCount, !.llmCalls = @ + 1]
    /\ res' = NoResponse

\* A slip: the fallback chunks are not cut to five.
FallbackSliceAll(fallbackChunks) == fallbackChunks

\* fallbackChunks.slice(0, 5)
FallbackSlice(fallbackChunks) ==
    SubSeq(fallbackChunks, 1, Min(Len(fallbackChunks), FallbackMaxChunks))

\* handleRAGQuery after hybridSearch(query, 8) has returned its hits.
HandleRetrieved(call, retrievedChunks) ==
    LET c == [call EXCEPT !.hits = retrievedChunks]
        relevantChunks == SelectSeq(retrievedChunks, LAMBDA h : h.score >= relevanceThreshold)
        fallbackChunks == SelectSeq(retrievedChunks, LAMBDA h : h.score >= fallbackThreshold)
    IN  IF Len(relevantChunks) = 0
        THEN IF Len(fallbackChunks) > 0
             THEN ChatCallsLlm(c, FallbackSlice(fallbackChunks), Len(fallbackChunks))
             ELSE ChatReturns(c, [ answer |-> NoRelevantMessage, mode |-> "rag", sources |-> <<>>,
                                   retrievedCount |-> Undefined, noRelevantResults |-> TRUE ])
        ELSE ChatCallsLlm(c, relevantChunks, Len(relevantChunks))

\* route, once the mode is known: handleRAGQuery up to its await (hybridSearch
\* returns [] at once when there are no chunks), or handleGeneralQuery up to
\* the LLM call.
Dispatch(c) ==
    IF c.mode = "rag"
    THEN IF Len(chunks) = 0
         THEN HandleRetrieved([c EXCEPT !.searchCalls = @ + 1], <<>>)
         ELSE /\ chat' = [c EXCEPT !.pc = "retrieve", !.searchCalls = @ + 1]
              /\ res' = NoResponse
    ELSE ChatCallsLlm(c, <<>>, Undefined)

\* POST /api/chat calls route(message, mode, history): route reads
\* hasDocuments() and runs to its first await.
ChatRoute(query, requestedMode) ==
    /\ chat = NoCall
    /\ LET c == ChatCall(query, requestedMode, hasDocuments)
       IN  IF requestedMode = "auto"
           THEN LET detected == AutoDetectBeforeProbe(query, c.hasDocuments)
                IN  IF detected = "probe"
                    THEN /\ chat' = [c EXCEPT !.pc = "probe", !.searchCalls = @ + 1]
                         /\ res' = NoResponse
                    ELSE Dispatch([c EXCEPT !.mode = detected])
           ELSE IF RouteRefuses(requestedMode, c.hasDocuments)
           THEN ChatReturns(c, [ answer |-> RefusalMessage, mode |-> "error", sources |-> <<>>,
                                 retrievedCount |-> Undefined, noRelevantResults |-> Undefined ])
           ELSE Dispatch(c)
    /\ UNCHANGED <<storeVars, adds, search, evicted, turnVars, embedVars, uploadVars>>

\* The relevance check's hybridSearch(query, 1) returns: it reads the chunk
\* list now, autoDetectMode returns the mode and route goes on with it (the
\* continuations run back to back, before any other request is served).
ChatProbeDone ==
    /\ chat.pc = "probe"
    /\ LET queryEmbedding == EmbedderOutput(Substring0(chat.query, EmbedMaxChars))
           results == HybridResults(chunks, queryEmbedding, chat.query, ProbeTopK)
       IN  Dispatch([chat EXCEPT !.probed = TRUE, !.probe = results,
                                 !.mode = AutoDetectAfterProbe(results)])
    /\ UNCHANGED <<storeVars, adds, search, evicted, turnVars, embedVars, uploadVars>>

\* handleRAGQuery's hybridSearch(query, 8) returns.
ChatRetrieveDone ==
    /\ chat.pc = "retrieve"
    /\ LET queryEmbedding == EmbedderOutput(Substring0(chat.query, EmbedMaxChars))
       IN  HandleRetrieved(chat, HybridResults(chunks, queryEmbedding, chat.query, RetrievalTopK))
    /\ UNCHANGED <<storeVars, adds, search, evicted, turnVars, embedVars, uploadVars>>

\* generateEmbedding rejects inside a hybridSearch of the router.
ChatSearchFailed ==
    /\ chat.pc \in {"probe", "retrieve"}
    /\ ChatThrows(chat)
    /\ UNCHANGED <<storeVars, adds, search, evicted, turnVars, embedVars, uploadVars>>

\* The LLM call returns its completion.
ChatLlmDone ==
    /\ chat.pc = "llm"
    /\ ChatReturns(chat, [ answer |-> LlmAnswer, mode |-> chat.mode,
                           sources |-> IF chat.mode = "rag" THEN FormatSources(chat.retrieved) ELSE <<>>,
                           retrievedCount |-> chat.retrievedCount,
                           noRelevantResults |-> Undefined ])
    /\ UNCHANGED <<storeVars, adds, search, evicted, turnVars, embedVars, uploadVars>>

\* The LLM call throws.
ChatLlmFailed ==
    /\ chat.pc = "llm"
    /\ ChatThrows(chat)
    /\ UNCHANGED <<storeVars, adds, search, evicted, turnVars, embedVars, uploadVars>>

(***************************************************************************)
(* POST /api/chat: the conversations and the turns                         *)
(***************************************************************************)
\* conversation.messages.length > 20 ... slice(-20)
MaxMessages == 20

\* A request that is not waiting at any await.
TurnOver == "over"

\* uuidv4(), for the n-th request: an id no client has sent.
Uuid(n) == "uuid-" \o ToString(n)

\* conversations.get(conversationId): the place of the conversation object
\* the Map holds under this id, 0 when conversations.has(...) is false.
ConversationsGet(convs, conversationId) ==
    IF \E k \in DOMAIN convs : convs[k].mapped /\ convs[k].id = conversationId
    THEN CHOOSE k \in DOMAIN convs : convs[k].mapped /\ convs[k].id = conversationId
    ELSE 0

\* { id: conversationId, messages: [], createdAt }; appended counts the
\* messages ever pushed onto the object, and replaced holds the arrays that
\* conversation.messages has pointed to before the one it points to now.
NewConversation(conversationId) ==
    [id |-> conversationId, messages |-> <<>>, appended |-> 0, mapped |-> TRUE,
     replaced |-> <<>>]

\* conversation.messages.push(message); seq is the message's place among all
\* the messages pushed onto the object.
Push(conversation, message) ==
    [conversation EXCEPT !.messages = Append(@, message @@ [seq |-> conversation.appended + 1]),
                         !.appended = @ + 1]

\* if (messages.length > 20) messages = messages.slice(-20)
Trim(messages) ==
    IF Len(messages) > MaxMessages
    THEN SubSeq(messages, Len(messages) - MaxMessages + 1, Len(messages))
    ELSE messages

\* The handler's trim: conversation.messages is given a new array, and the
\* array it pointed to stays as it is with whoever holds it.
TrimConversation(conversation) ==
    IF Len(conversation.messages) > MaxMessages
    THEN [conversation EXCEPT !.messages = Trim(@), !.replaced = Append(@, conversation.messages)]
    ELSE conversation

\* The conversationHistory of a request: the array that conversation.messages
\* pointed to when the handler called route, as it is now.
HistoryOf(conversation, array) ==
    IF array <= Len(conversation.replaced)
    THEN conversation.replaced[array]
    ELSE conversation.messages

\* conversationHistory.slice(-6)
HistoryWindow == 6

\* The messages that generateOllama, generateDeepSeek and generateOpenAI send
\* for request n: the system prompt, the last six messages of the history
\* and the prompt.  turn tells which request pushed a message of the history.
LlmMessages(conversationHistory, prompt, grounded, n) ==
    LET recent == SubSeq(conversationHistory,
                         Max(1, Len(conversationHistory) - HistoryWindow + 1),
                         Len(conversationHistory))
    IN  <<[role |-> "system", content |-> IF grounded THEN "context" ELSE "general", turn |-> 0]>>
        \o [i \in DOMAIN recent |->
               [role |-> recent[i].role, content |-> recent[i].content, turn |-> recent[i].turn]]
        \o <<[role |-> "user", content |-> prompt, turn |-> n]>>

\* The user message the handler pushes for request number turn.
UserMessage(content, turn) ==
    [role |-> "user", content |-> content, turn |-> turn]

\* The assistant message the handler pushes for the response of route.
AssistantMessage(body, turn) ==
    [role |-> "assistant", content |-> body.answer, mode |-> body.mode,
     sources |-> body.sources, turn |-> turn]

\* generateRAGResponse's context: one "[Source i - filename]" block for each
\* retrieved chunk.
ContextOf(retrievedChunks) ==
    [i \in DOMAIN retrievedChunks |->
        [source |-> i, filename |-> retrievedChunks[i].metadata.filename,
         content |-> retrievedChunks[i].content]]

\* generateLocalResponse(prompt, context): the raw context with a note, or
\* the no-LLM message that quotes the question.
generateLocalResponse(prompt, context) ==
    IF context # <<>>
    THEN [text |-> "Based on the provided documents, here is the relevant information", context |-> context]
    ELSE [text |-> "I'm running in local mode without an LLM connection", question |-> prompt]

\* generateRAGResponse's answer for no chunks.
NothingRetrievedMessage ==
    "I couldn't find any relevant information in the uploaded documents to answer your question."

\* The response object route returns.
Body(answer, mode, sources, retrievedCount, noRelevantResults) ==
    [ answer |-> answer, mode |-> mode, sources |-> sources,
      retrievedCount |-> retrievedCount, noRelevantResults |-> noRelevantResults ]

\* The request has its response from route: it goes on in the handler.
Responds(t, body) == [t EXCEPT !.pc = "respond", !.body = body]

\* generateRAGResponse (mode rag) or generateGeneralResponse, to the await of
\* the provider's call; generateLocalResponse returns at once.
TurnCallsLlm(t, retrievedChunks, retrievedCount, modelId, keys) ==
    LET provider == GatewayProvider(modelId, keys)
        grounded == t.mode = "rag"
        sources == IF grounded THEN FormatSources(retrievedChunks) ELSE <<>>
    IN  IF grounded /\ Len(retrievedChunks) = 0
        THEN Responds(t, Body(NothingRetrievedMessage, "rag", <<>>, retrievedCount, Undefined))
        ELSE IF provider = "local"
        THEN Responds(t, Body(generateLocalResponse(t.message, IF grounded THEN ContextOf(retrievedChunks) ELSE <<>>),
                              t.mode, sources, retrievedCount, Undefined))
        ELSE [t EXCEPT !.pc = "llm", !.provider = provider, !.retrieved = retrievedChunks,
                       !.retrievedCount = retrievedCount]

\* handleRAGQuery after hybridSearch(query, 8) has returned its hits.
TurnRetrieved(t, retrievedChunks, modelId, keys) ==
    LET relevantChunks == SelectSeq(retrievedChunks, LAMBDA h : h.score >= relevanceThreshold)
        fallbackChunks == SelectSeq(retrievedChunks, LAMBDA h : h.score >= fallbackThreshold)
    IN  IF Len(relevantChunks) = 0
        THEN IF Len(fallbackChunks) > 0
             THEN TurnCallsLlm(t, FallbackSlice(fallbackChunks), Len(fallbackChunks), modelId, keys)
             ELSE Responds(t, Body(NoRelevantMessage, "rag", <<>>, Undefined, TRUE))
        ELSE TurnCallsLlm(t, relevantChunks, Len(relevantChunks), modelId, keys)

\* route, once the mode is known.
TurnDispatch(t, chunkList, modelId, keys) ==
    IF t.mode = "rag"
    THEN IF Len(chunkList) = 0
         THEN TurnRetrieved(t, <<>>, modelId, keys)
         ELSE [t EXCEPT !.pc = "retrieve"]
    ELSE TurnCallsLlm([t EXCEPT !.mode = "general"], <<>>, Undefined, modelId, keys)

\* route(message, mode, conversation.messages), to its first await on the
\* embedder or on a provider.
TurnRoutes(t, chunkList, modelId, keys) ==
    IF t.requestedMode = "auto"
    THEN LET detected == AutoDetectBeforeProbe(t.message, t.hasDocuments)
         IN  IF detected = "probe"
             THEN [t EXCEPT !.pc = "probe"]
             ELSE TurnDispatch([t EXCEPT !.mode = detected], chunkList, modelId, keys)
    ELSE IF RouteRefuses(t.requestedMode, t.hasDocuments)
    THEN Responds(t, Body(RefusalMessage, "error", <<>>, Undefined, Undefined))
    ELSE TurnDispatch(t, chunkList, modelId, keys)

\* The number of POST /api/chat requests in a behaviour.
MaxTurns == 2

\* The locals of a POST /api/chat request while route runs.
TurnCall(conversationId, conv, message, requestedMode, hasDocs) ==
    [ conversationId |-> conversationId,
      conv           |-> conv,
      message        |-> message,
      requestedMode  |-> requestedMode,
      hasDocuments   |-> hasDocs,
      mode           |-> requestedMode,
      pc             |-> "route",
      retrieved      |-> <<>>,
      retrievedCount |-> Undefined,
      provider       |-> "none",
      body           |-> Undefined,
      closed         |-> FALSE,
      failedAt       |-> "none",
      array          |-> 0,
      sent           |-> <<>>,
      status         |-> 0 ]

\* Request n goes on in the handler after `await chatRouter.route(...)`, when
\* route has returned: the assistant message is pushed, the list is cut to
\* its last 20 messages and the response is sent.  When route waits for the
\* embedder or a provider, so does the handler.
TurnSettles(n, t, convs, ts) ==
    IF t.pc = "respond"
    THEN /\ conversations' =
              [convs EXCEPT ![t.conv] =
                  TrimConversation(Push(@, AssistantMessage(t.body, n)))]
         /\ turns' = [ts EXCEPT ![n] = [t EXCEPT !.pc = TurnOver, !.status = 200, !.body = Undefined,
                                                !.retrieved = <<>>]]
         /\ res' = [op |-> "chat", turn |-> n, status |-> 200, body |-> t.body,
                    conversationId |-> t.conversationId]
    ELSE /\ conversations' = convs
         /\ turns' = [ts EXCEPT ![n] =
                          IF t.pc = "llm"
                          THEN [t EXCEPT !.sent = LlmMessages(HistoryOf(convs[t.conv], t.array),
                                                              t.message, t.mode = "rag", n)]
                          ELSE t]
         /\ res' = NoResponse

\* route throws in request n: the handler's catch answers 500.
TurnThrows(n) ==
    /\ turns' = [turns EXCEPT ![n] = [@ EXCEPT !.pc = TurnOver, !.status = 500, !.failedAt = turns[n].pc,
                                              !.retrieved = <<>>]]
    /\ res' = [op |-> "chat", turn |-> n, status |-> 500, error |-> "Failed to process message"]
    /\ UNCHANGED conversations

\* POST /api/chat with {message, conversationId, mode}: the handler, to the
\* first await that waits for the embedder or a provider.
ChatRequest(conversationId, message, requestedMode) ==
    LET n == Len(turns) + 1
        id == IF conversationId = Undefined THEN Uuid(n) ELSE conversationId
        found == ConversationsGet(conversations, id)
        created == IF found = 0 THEN Append(conversations, NewConversation(id)) ELSE conversations
        conv == IF found = 0 THEN Len(created) ELSE found
        pushed == [created EXCEPT ![conv] = Push(@, UserMessage(message, n))]
        t == [TurnCall(id, conv, message, requestedMode, hasDocuments)
                  EXCEPT !.array = Len(created[conv].replaced) + 1]
    IN  /\ Len(turns) < MaxTurns
        /\ IF message = <<>>
           THEN /\ turns' = Append(turns, [TurnCall(id, 0, message, requestedMode, FALSE)
                                              EXCEPT !.pc = TurnOver, !.status = 400])
                /\ res' = [op |-> "chat", turn |-> n, status |-> 400, error |-> "Message is required"]
                /\ UNCHANGED conversations
           ELSE TurnSettles(n, TurnRoutes(t, chunks, currentModel, apiKeys), pushed, Append(turns, t))
        /\ UNCHANGED <<storeVars, adds, search, evicted, chat, currentModel, apiKeys, embedVars, uploadVars>>

\* The relevance check's hybridSearch(query, 1) of request n returns.
TurnProbeDone(n) ==
    /\ turns[n].pc = "probe"
    /\ LET t == turns[n]
           queryEmbedding == EmbedderOutput(Substring0(t.message, EmbedMaxChars))
           results == HybridResults(chunks, queryEmbedding, t.message, ProbeTopK)
       IN  TurnSettles(n, TurnDispatch([t EXCEPT !.mode = AutoDetectAfterProbe(results)],
                                       chunks, currentModel, apiKeys),
                       conversations, turns)
    /\ UNCHANGED <<storeVars, adds, search, evicted, chat, currentModel, apiKeys, embedVars, uploadVars>>

\* handleRAGQuery's hybridSearch(query, 8) of request n returns.
TurnRetrieveDone(n) ==
    /\ turns[n].pc = "retrieve"
    /\ LET t == turns[n]
           queryEmbedding == EmbedderOutput(Substring0(t.message, EmbedMaxChars))
           hits == HybridResults(chunks, queryEmbedding, t.message, RetrievalTopK)
       IN  TurnSettles(n, TurnRetrieved(t, hits, currentModel, apiKeys), conversations, turns)
    /\ UNCHANGED <<storeVars, adds, search, evicted, chat, currentModel, apiKeys, embedVars, uploadVars>>

\* generateEmbedding rejects inside a hybridSearch of request n.
TurnSearchFailed(n) ==
    /\ turns[n].pc \in {"probe", "retrieve"}
    /\ TurnThrows(n)
    /\ UNCHANGED <<storeVars, adds, search, evicted, chat, currentModel, apiKeys, embedVars, uploadVars>>

\* The provider's call of request n returns its completion.
TurnLlmDone(n) ==
    /\ turns[n].pc = "llm"
    /\ LET t == turns[n]
           sources == IF t.mode = "rag" THEN FormatSources(t.retrieved) ELSE <<>>
       IN  TurnSettles(n, Responds(t, Body(LlmAnswer, t.mode, sources, t.retrievedCount, Undefined)),
                       conversations, turns)
    /\ UNCHANGED <<storeVars, adds, search, evicted, chat, currentModel, apiKeys, embedVars, uploadVars>>

\* The provider's call of request n fails (the server is not reachable, or
\* it answers with an error): generateOllama, generateDeepSeek and
\* generateOpenAI rethrow.
TurnLlmFailed(n) ==
    /\ turns[n].pc = "llm"
    /\ TurnThrows(n)
    /\ UNCHANGED <<storeVars, adds, search, evicted, chat, currentModel, apiKeys, embedVars, uploadVars>>

\* The client of request n closes its connection while the request waits
\* for the provider's answer.  Nothing in the handler listens for it.
ClientCloses(n) ==
    /\ turns[n].pc = "llm"
    /\ ~turns[n].closed
    /\ turns' = [turns EXCEPT ![n].closed = TRUE]
    /\ res' = NoResponse
    /\ UNCHANGED <<storeVars, adds, search, evicted, chat, conversations, currentModel, apiKeys, embedVars, uploadVars>>

\* DELETE /api/conversations/:conversationId: conversations.delete(id).
deleteConversation(conversationId) ==
    /\ conversations' = [k \in DOMAIN conversations |->
                            IF conversations[k].id = conversationId
                            THEN [conversations[k] EXCEPT !.mapped = FALSE]
                            ELSE conversations[k]]
    /\ res' = [op |-> "deleteConversation", status |-> 200]
    /\ UNCHANGED <<storeVars, adds, search, evicted, chat, turns, currentModel, apiKeys, embedVars, uploadVars>>

(***************************************************************************)
(* The ingestion specification: uploads, deletes and searches interleaved  *)
(***************************************************************************)
Init ==
    /\ documents = <<>>
    /\ chunks = <<>>
    /\ embedder = "null"
    /\ initialized = FALSE
    /\ initPromise = "null"
    /\ embedFn = EmbedderBySubject
    /\ adds = <<>>
    /\ search = NoCall
    /\ evicted = FALSE
    /\ chat = NoCall
    /\ loads = 0
    /\ embeds = <<>>
    /\ upload = NoUpload
    /\ chunker = NoCall
    /\ keywordCall = NoCall
    /\ turns = <<>>
    /\ conversations = <<>>
    /\ currentModel = DefaultModel
    /\ apiKeys = {}
    /\ res = NoResponse

Next ==
    \/ initialize
    \/ LoaderResolve
    \/ LoaderReject
    \/ \E f \in FileKeys : addDocument(f)
    \/ \E d \in DOMAIN adds : AddAfterInit(d)
    \/ \E d \in DOMAIN adds : AddInitFailed(d)
    \/ \E d \in DOMAIN adds : AddBatchDone(d)
    \/ \E d \in DOMAIN adds : AddBatchFailed(d)
    \/ \E d \in 1..MaxDocs : removeDocument(d)
    \/ clear
    \/ \E q \in SearchQueries, k \in TopKs : hybridSearch(q, k)
    \/ vectorSearch(QueryCats, VectorTopK)
    \/ SearchResume
    \/ SearchFailed

Spec == Init /\ [][Next]_vars

(***************************************************************************)
(* The initialization specification: first callers of the embedder, at the *)
(* same time                                                               *)
(***************************************************************************)
NextInit ==
    \/ initialize
    \/ LoaderResolve
    \/ LoaderReject
    \/ \E kind \in EmbedKinds : EmbedCall(kind)
    \/ \E e \in DOMAIN embeds : EmbedAfterInit(e)
    \/ \E e \in DOMAIN embeds : EmbedInitFailed(e)
    \/ \E e \in DOMAIN embeds : EmbedDone(e)
    \/ addDocument("A")
    \/ \E d \in DOMAIN adds : AddAfterInit(d)
    \/ \E d \in DOMAIN adds : AddInitFailed(d)
    \/ \E d \in DOMAIN adds : AddBatchDone(d)
    \/ \E d \in DOMAIN adds : AddBatchFailed(d)
    \/ hybridSearch(QueryCats, ProbeTopK)
    \/ SearchResume
    \/ SearchFailed

SpecInit == Init /\ [][NextInit]_vars

(***************************************************************************)
(* The ranking specification: searches of a one-document index, under      *)
(* every assignment of vectors to its two chunks and to the query          *)
(***************************************************************************)
NameR == <<"r",".","t","x","t">>

TextCatsChase == <<"C","a","t","s"," ","c","h","a","s","e"," ","c","a","t","s",".">>

\* The document's chunks: Y, without the query's keyword, then X, with the
\* keyword twice.
RankChunks == ChunksOf(NameR, <<TextDogsBark, TextCatsChase>>)

RankTexts == {TextDogsBark, TextCatsChase, QueryCats}

\* The embedding models: any vector for each text.
RankEmbedders == [RankTexts -> UnitVectors]

RankTopKs == {1, 2}

InitRank ==
    /\ embedder = "pipeline"
    /\ initialized = TRUE
    /\ initPromise = "fulfilled"
    /\ embedFn \in RankEmbedders
    /\ adds = <<>>
    /\ LET processedChunks ==
               ProcessBatch(RankChunks, 1,
                            generateEmbeddingsBatch([j \in DOMAIN RankChunks |-> RankChunks[j].content]))
       IN  /\ documents = PublishDocuments(<<>>, 1, NameR, processedChunks)
           /\ chunks = PublishChunks(<<>>, processedChunks)
    /\ search = NoCall
    /\ evicted = FALSE
    /\ chat = NoCall
    /\ loads = 1
    /\ embeds = <<>>
    /\ upload = NoUpload
    /\ chunker = NoCall
    /\ keywordCall = NoCall
    /\ turns = <<>>
    /\ conversations = <<>>
    /\ currentModel = DefaultModel
    /\ apiKeys = {}
    /\ res = NoResponse

NextRank ==
    \/ \E k \in RankTopKs : hybridSearch(QueryCats, k)
    \/ SearchResume
    \/ SearchFailed

SpecRank == InitRank /\ [][NextRank]_vars

(***************************************************************************)
(* The batch specification: addDocument with the embedder calls of a batch *)
(* resolving one by one, in any order                                      *)
(***************************************************************************)
\* An embedding model that gives the two chunks of file A different vectors.
EmbedderByText ==
    [t \in EmbedTexts |-> IF t = TextCatsPurr THEN VecAxis
                          ELSE IF t = TextCatsNap THEN VecQuarter
                          ELSE VecOrthogonal]

\* The files of the uploads: the two-chunk file and the empty one.
BatchFiles == {"A", "E"}

InitBatch ==
    /\ documents = <<>>
    /\ chunks = <<>>
    /\ embedder = "pipeline"
    /\ initialized = TRUE
    /\ initPromise = "fulfilled"
    /\ embedFn = EmbedderByText
    /\ adds = <<>>
    /\ search = NoCall
    /\ evicted = FALSE
    /\ chat = NoCall
    /\ loads = 1
    /\ embeds = <<>>
    /\ upload = NoUpload
    /\ chunker = NoCall
    /\ keywordCall = NoCall
    /\ turns = <<>>
    /\ conversations = <<>>
    /\ currentModel = DefaultModel
    /\ apiKeys = {}
    /\ res = NoResponse

NextBatch ==
    \/ \E f \in BatchFiles : addDocument(f)
    \/ \E d \in DOMAIN adds : AddAfterInit(d)
    \/ \E d \in DOMAIN adds : \E p \in 1..batchSize : EmbedderCallResolves(d, p)
    \/ \E d \in DOMAIN adds : BatchAllResolved(d)
    \/ \E d \in DOMAIN adds : AddBatchFailed(d)

SpecBatch == InitBatch /\ [][NextBatch]_vars

(***************************************************************************)
(* The upload specification: upload requests, one after the other          *)
(***************************************************************************)
InitUpload ==
    /\ documents = <<>>
    /\ chunks = <<>>
    /\ embedder = "pipeline"
    /\ initialized = TRUE
    /\ initPromise = "fulfilled"
    /\ embedFn = EmbedderBySubject
    /\ adds = <<>>
    /\ search = NoCall
    /\ evicted = FALSE
    /\ chat = NoCall
    /\ loads = 1
    /\ embeds = <<>>
    /\ upload = NoUpload
    /\ chunker = NoCall
    /\ keywordCall = NoCall
    /\ turns = <<>>
    /\ conversations = <<>>
    /\ currentModel = DefaultModel
    /\ apiKeys = {}
    /\ res = NoResponse

NextUpload ==
    \/ \E batch \in UploadBatches : UploadRequest(batch)
    \/ \E embedded \in BOOLEAN : UploadFile(embedded)

SpecUpload == InitUpload /\ [][NextUpload]_vars

(***************************************************************************)
(* The keyword specification: extractKeywords on a text                    *)
(***************************************************************************)
\* The words of the texts: a word, the same with a capital, another word, a
\* word with an underscore, a stop-word, a word of two letters, and three
\* numerals, the last with a leading zero.
KeywordWords ==
    { <<"c","a","t","s">>, <<"C","a","t","s">>, <<"d","o","g","s">>, <<"a","_","b">>,
      <<"t","h","e">>, <<"o","x">>,
      <<"1","2","3">>, <<"4","5","6","7","8">>, <<"0","0","7">> }

MaxWords == 3

RECURSIVE JoinWords(_)
\* words.join(' ')
JoinWords(words) ==
    IF words = <<>> THEN <<>>
    ELSE IF Len(words) = 1 THEN words[1]
    ELSE JoinSpace(words[1], JoinWords(Tail(words)))

\* The texts: up to MaxWords words, with single blanks between them.
KeywordTexts == { JoinWords(words) : words \in SeqsUpTo(KeywordWords, MaxWords) }

\* The call returns.
ExtractKeywordsCall ==
    /\ keywordCall.pc = "call"
    /\ keywordCall' = [pc |-> "done", text |-> keywordCall.text,
                       keywords |-> extractKeywords(keywordCall.text)]
    /\ res' = [op |-> "extractKeywords", keywords |-> Len(keywordCall'.keywords)]
    /\ UNCHANGED <<storeVars, adds, search, evicted, chat, turnVars, embedVars, upload, chunker>>

InitKeywords ==
    /\ documents = <<>>
    /\ chunks = <<>>
    /\ embedder = "null"
    /\ initialized = FALSE
    /\ initPromise = "null"
    /\ embedFn = EmbedderBySubject
    /\ adds = <<>>
    /\ search = NoCall
    /\ evicted = FALSE
    /\ chat = NoCall
    /\ loads = 0
    /\ embeds = <<>>
    /\ upload = NoUpload
    /\ chunker = NoCall
    /\ keywordCall \in {[pc |-> "call", text |-> text] : text \in KeywordTexts}
    /\ turns = <<>>
    /\ conversations = <<>>
    /\ currentModel = DefaultModel
    /\ apiKeys = {}
    /\ res = NoResponse

NextKeywords == ExtractKeywordsCall

SpecKeywords == InitKeywords /\ [][NextKeywords]_vars

(***************************************************************************)
(* The chunker specification: createChunks on a text                       *)
(***************************************************************************)
InitChunks ==
    /\ documents = <<>>
    /\ chunks = <<>>
    /\ embedder = "null"
    /\ initialized = FALSE
    /\ initPromise = "null"
    /\ embedFn = EmbedderBySubject
    /\ adds = <<>>
    /\ search = NoCall
    /\ evicted = FALSE
    /\ chat = NoCall
    /\ loads = 0
    /\ embeds = <<>>
    /\ upload = NoUpload
    /\ chunker \in {[pc |-> "call", sentences |-> text] : text \in SeqsUpTo(Sentences, MaxSentences)}
    /\ keywordCall = NoCall
    /\ turns = <<>>
    /\ conversations = <<>>
    /\ currentModel = DefaultModel
    /\ apiKeys = {}
    /\ res = NoResponse

NextChunks == CreateChunksCall

SpecChunks == InitChunks /\ [][NextChunks]_vars

(***************************************************************************)
(* The chat specification: chat requests against an ingested store, with   *)
(* deletes and clears interleaved                                          *)
(***************************************************************************)
\* The uploads that were ingested, one after the other, before the chats.
IngestedFiles == { <<>>, <<"E">>, <<"A">>, <<"A", "B">> }

\* The i of an addDocument call when it returns.
BatchesEnd(n) == ((n + batchSize - 1) \div batchSize) * batchSize

\* The processed chunks addDocument publishes for document d of file f.
ProcessedFile(f, d) ==
    LET cs == Files[f].chunks
    IN  ProcessBatch(cs, d, generateEmbeddingsBatch([j \in DOMAIN cs |-> cs[j].content]))

RECURSIVE IngestedDocuments(_, _)
IngestedDocuments(files, n) ==
    IF n = 0 THEN <<>>
    ELSE PublishDocuments(IngestedDocuments(files, n - 1), n, Files[files[n]].name,
                          ProcessedFile(files[n], n))

RECURSIVE IngestedChunks(_, _)
IngestedChunks(files, n) ==
    IF n = 0 THEN <<>>
    ELSE PublishChunks(IngestedChunks(files, n - 1), ProcessedFile(files[n], n))

InitChat ==
    /\ embedder = "pipeline"
    /\ initialized = TRUE
    /\ initPromise = "fulfilled"
    /\ embedFn \in ChatEmbedders
    /\ \E files \in IngestedFiles :
         /\ adds = [d \in DOMAIN files |->
                       [file |-> files[d], pc |-> "done",
                        i |-> BatchesEnd(Len(Files[files[d]].chunks)), processedChunks |-> <<>>,
                        arrivals |-> <<>>]]
         /\ documents = IngestedDocuments(files, Len(files))
         /\ chunks = IngestedChunks(files, Len(files))
    /\ search = NoCall
    /\ evicted = FALSE
    /\ chat = NoCall
    /\ loads = 1
    /\ embeds = <<>>
    /\ upload = NoUpload
    /\ chunker = NoCall
    /\ keywordCall = NoCall
    /\ turns = <<>>
    /\ conversations = <<>>
    /\ currentModel = DefaultModel
    /\ apiKeys = {}
    /\ res = NoResponse

NextChat ==
    \/ \E q \in ChatQueries, m \in RequestedModes : ChatRoute(q, m)
    \/ ChatProbeDone
    \/ ChatRetrieveDone
    \/ ChatSearchFailed
    \/ ChatLlmDone
    \/ ChatLlmFailed
    \/ \E d \in 1..MaxDocs : removeDocument(d)
    \/ clear

SpecChat == InitChat /\ [][NextChat]_vars

(***************************************************************************)
(* The conversation specification: chat requests on conversations, one     *)
(* after the other or at the same time, with model changes and deletes of  *)
(* conversations interleaved                                               *)
(***************************************************************************)
\* The conversation id the clients share.
ConversationX == "X"

\* The conversationId of a request: the shared one, or none.
ConversationIdInputs == {ConversationX, Undefined}

\* The message and mode of a request; the last has no message.
TurnRequests ==
    { [message |-> QueryHello, mode |-> "general"],
      [message |-> QueryCats, mode |-> "auto"],
      [message |-> QueryCats, mode |-> "rag"],
      [message |-> <<>>, mode |-> "auto"] }

\* The earlier turns that fill a conversation's list: 20 messages.
FullHistoryTurns == MaxMessages \div 2

\* The conversation object after k turns, one after the other, each a
\* general question the LLM answered; they are numbered k - total + 1 .. 0.
RECURSIVE PriorConversation(_, _)
PriorConversation(k, total) ==
    IF k = 0 THEN NewConversation(ConversationX)
    ELSE LET before == PriorConversation(k - 1, total)
             asked == Push(before, UserMessage(QueryHello, k - total))
             answered == Push(asked, AssistantMessage(Body(LlmAnswer, "general", <<>>, Undefined, Undefined),
                                                      k - total))
         IN  [answered EXCEPT !.messages = Trim(@)]

\* The uploads ingested before the conversations.
TurnIngestedFiles == { <<>>, <<"A">> }

InitTurns ==
    /\ embedder = "pipeline"
    /\ initialized = TRUE
    /\ initPromise = "fulfilled"
    /\ embedFn = EmbedderBySubject
    /\ \E files \in TurnIngestedFiles :
         /\ adds = [d \in DOMAIN files |->
                       [file |-> files[d], pc |-> "done",
                        i |-> BatchesEnd(Len(Files[files[d]].chunks)), processedChunks |-> <<>>,
                        arrivals |-> <<>>]]
         /\ documents = IngestedDocuments(files, Len(files))
         /\ chunks = IngestedChunks(files, Len(files))
    /\ search = NoCall
    /\ evicted = FALSE
    /\ chat = NoCall
    /\ loads = 1
    /\ embeds = <<>>
    /\ upload = NoUpload
    /\ chunker = NoCall
    /\ keywordCall = NoCall
    /\ turns = <<>>
    /\ conversations \in { <<>>, <<PriorConversation(FullHistoryTurns, FullHistoryTurns)>> }
    /\ currentModel = DefaultModel
    /\ apiKeys = {}
    /\ res = NoResponse

NextTurns ==
    \/ \E id \in ConversationIdInputs, r \in TurnRequests : ChatRequest(id, r.message, r.mode)
    \/ \E n \in DOMAIN turns : TurnProbeDone(n)
    \/ \E n \in DOMAIN turns : TurnRetrieveDone(n)
    \/ \E n \in DOMAIN turns : TurnSearchFailed(n)
    \/ \E n \in DOMAIN turns : TurnLlmDone(n)
    \/ \E n \in DOMAIN turns : TurnLlmFailed(n)
    \/ \E n \in DOMAIN turns : ClientCloses(n)
    \/ deleteConversation(ConversationX)

SpecTurns == InitTurns /\ [][NextTurns]_vars

(***************************************************************************)
(* The gateway specification: chat requests, each on a conversation of its *)
(* own, with changes of the model interleaved                              *)
(***************************************************************************)
InitGateway ==
    /\ embedder = "pipeline"
    /\ initialized = TRUE
    /\ initPromise = "fulfilled"
    /\ embedFn = EmbedderBySubject
    /\ \E files \in TurnIngestedFiles :
         /\ adds = [d \in DOMAIN files |->
                       [file |-> files[d], pc |-> "done",
                        i |-> BatchesEnd(Len(Files[files[d]].chunks)), processedChunks |-> <<>>,
                        arrivals |-> <<>>]]
         /\ documents = IngestedDocuments(files, Len(files))
         /\ chunks = IngestedChunks(files, Len(files))
    /\ search = NoCall
    /\ evicted = FALSE
    /\ chat = NoCall
    /\ loads = 1
    /\ embeds = <<>>
    /\ upload = NoUpload
    /\ chunker = NoCall
    /\ keywordCall = NoCall
    /\ turns = <<>>
    /\ conversations = <<>>
    /\ currentModel = DefaultModel
    /\ apiKeys \in { {}, HostedProviders }
    /\ res = NoResponse

NextGateway ==
    \/ \E r \in TurnRequests : ChatRequest(Undefined, r.message, r.mode)
    \/ \E n \in DOMAIN turns : TurnProbeDone(n)
    \/ \E n \in DOMAIN turns : TurnRetrieveDone(n)
    \/ \E n \in DOMAIN turns : TurnSearchFailed(n)
    \/ \E n \in DOMAIN turns : TurnLlmDone(n)
    \/ \E n \in DOMAIN turns : TurnLlmFailed(n)
    \/ \E modelId \in SetModelInputs : setModel(modelId)

SpecGateway == InitGateway /\ [][NextGateway]_vars

(***************************************************************************)
(* Properties of the ingestion specification                               *)
(***************************************************************************)
\* The chunks of document docId in the index, in index order.
OwnChunks(docId) == SelectSeq(chunks, LAMBDA c : c.docId = docId)

IdsOf(cs) == [i \in DOMAIN cs |-> cs[i].id]

\* The chunk list call d was given.
InputChunks(d) == Files[adds[d].file].chunks

Returned(d) == adds[d].pc = "done"

RECURSIVE SumOver(_, _)
SumOver(S, f) ==
    IF S = {} THEN 0
    ELSE LET e == CHOOSE e \in S : TRUE IN f[e] + SumOver(S \ {e}, f)

\* C1: in every reachable state every chunk of the index has its docId in
\* the registry, every registered document owns at least one chunk of the
\* index, and hasDocuments() is true exactly when getDocumentCount() > 0.
C1_RegistryLockstep ==
    /\ \A i \in DOMAIN chunks : DocumentsHas(documents, chunks[i].docId)
    /\ \A i \in DOMAIN documents : OwnChunks(documents[i].id) # <<>>
    /\ hasDocuments <=> getDocumentCount > 0

\* C2: with no remove and no clear, the index holds exactly the chunks of the
\* addDocument calls that have returned, and the registry one entry for each:
\* the counts are the sum of the lists' lengths and the number of calls, and
\* each call's chunks are there once, in their order.
C2_ConcurrentAddsCount ==
    ~evicted =>
        LET done == { d \in DOMAIN adds : Returned(d) }
        IN  /\ getChunkCount = SumOver(done, [d \in done |-> Len(InputChunks(d))])
            /\ getDocumentCount = Cardinality(done)
            /\ \A d \in done :
                 /\ IdsOf(OwnChunks(d)) = IdsOf(InputChunks(d))
                 /\ Cardinality({ i \in DOMAIN documents : documents[i].id = d }) = 1

\* Two calls have returned and the call made second was published first: the
\* calls overlapped.
C2_Witness ==
    /\ ~evicted
    /\ Len(adds) = 2
    /\ \A d \in DOMAIN adds : Returned(d) /\ InputChunks(d) # <<>>
    /\ documents[1].id = 2

\* The hits of document d in the response of the step just taken.
HitsOf(d) == SelectSeq(res.hits, LAMBDA h : h.docId = d)

SearchReturned == res.op \in {"hybridSearch", "vectorSearch"} /\ res.ok

\* C3: every document is either invisible (no chunk in the index, no registry
\* entry) or wholly visible (all its chunks and its entry), it is invisible
\* until its addDocument call has returned, and a search that was not cut at
\* topK returns none or all of a document's chunks.
C3_NoHalfIngested ==
    /\ \A d \in DOMAIN adds :
         \/ /\ OwnChunks(d) = <<>>
            /\ ~DocumentsHas(documents, d)
         \/ /\ Returned(d)
            /\ DocumentsHas(documents, d)
            /\ IdsOf(OwnChunks(d)) = IdsOf(InputChunks(d))
    /\ SearchReturned /\ Len(res.hits) < res.topK =>
         \A d \in DOMAIN adds : Len(HitsOf(d)) \in {0, Len(InputChunks(d))}

\* A search returns hits while another document has its first batch embedded
\* and is waiting for its second.
C3_Witness ==
    /\ SearchReturned
    /\ res.hits # <<>>
    /\ Len(res.hits) < res.topK
    /\ \E d \in DOMAIN adds : adds[d].pc = "awaitBatch" /\ adds[d].processedChunks # <<>>

\* C4: the step in which addDocument fails leaves the registry and the chunk
\* list as they were, and a failed call has no chunk and no entry in them.
C4_FailedAddLeavesStore ==
    /\ [][\A d \in DOMAIN adds :
            adds[d].pc # "failed" /\ adds'[d].pc = "failed"
                => documents' = documents /\ chunks' = chunks]_vars
    /\ [](\A d \in DOMAIN adds :
            adds[d].pc = "failed"
                => OwnChunks(d) = <<>> /\ ~DocumentsHas(documents, d))

\* A call failed in its second batch, after its first batch had succeeded,
\* while an earlier document is in the index.
C4_Witness ==
    \E d \in DOMAIN adds :
        /\ adds[d].pc = "failed"
        /\ adds[d].i >= batchSize
        /\ chunks # <<>>

\* C5: a removeDocument(d) that succeeds leaves no chunk of d, takes one
\* entry from the registry, keeps every other chunk and entry in its order,
\* and shrinks the chunk list by what addDocument(d) had added.
C5_RemoveExactly ==
    [][res'.op = "removeDocument" /\ res'.ok =>
          LET d == res'.docId
          IN  /\ \A i \in DOMAIN chunks' : chunks'[i].docId # d
              /\ getDocumentCount' = getDocumentCount - 1
              /\ chunks' = SelectSeq(chunks, LAMBDA c : c.docId # d)
              /\ documents' = SelectSeq(documents, LAMBDA e : e.id # d)
              /\ getChunkCount' = getChunkCount - Len(InputChunks(d))]_vars

\* A document was removed and chunks of another document are still there.
C5_Witness ==
    /\ res.op = "removeDocument"
    /\ res.ok
    /\ chunks # <<>>

\* Documents A and B, and no other, were ingested; A is gone and B is
\* registered.
DeleteIsolation(dA, dB) ==
    /\ adds[dA].file = "A" /\ Returned(dA) /\ ~DocumentsHas(documents, dA)
    /\ adds[dB].file = "B" /\ Returned(dB) /\ DocumentsHas(documents, dB)
    /\ \A d \in DOMAIN adds \ {dA, dB} : ~Returned(d)

\* C6 as claimed: after A and B are ingested and A is deleted, hybridSearch
\* for a term only in A returns 0 hits, and for a term only in B at least one
\* hit owned by B.
C6_DeleteIsolationClaimed ==
    \A dA, dB \in DOMAIN adds :
        DeleteIsolation(dA, dB) /\ res.op = "hybridSearch" /\ res.ok =>
            /\ res.query = QueryCats => res.hits = <<>>
            /\ res.query = QueryDogs => HitsOf(dB) # <<>>

\* C6 as amended: after A and B are ingested and A is deleted, hybridSearch
\* for a term only in A returns no hit owned by A (every hit is a chunk of a
\* registered document), and for a term only in B at least one hit owned by B.
C6_DeleteIsolation ==
    \A dA, dB \in DOMAIN adds :
        DeleteIsolation(dA, dB) /\ res.op = "hybridSearch" /\ res.ok =>
            /\ HitsOf(dA) = <<>>
            /\ \A i \in DOMAIN res.hits : DocumentsHas(documents, res.hits[i].docId)
            /\ res.query = QueryDogs => HitsOf(dB) # <<>>

\* A search for the term only in A returned hits after A was deleted.
C6_Witness ==
    \E dA, dB \in DOMAIN adds :
        /\ DeleteIsolation(dA, dB)
        /\ res.op = "hybridSearch" /\ res.ok
        /\ res.query = QueryCats
        /\ res.hits # <<>>

(***************************************************************************)
(* Properties of the chat specification                                    *)
(***************************************************************************)
\* The chat request in flight, if any.
InFlight == IF chat = NoCall THEN {} ELSE {chat}

\* The chat request that route has answered, if any.
Answered == IF res.op = "chat" /\ res.status = 200 THEN {res.request} ELSE {}

\* The queries that hold a hint term not as typed in the list: inside a
\* longer word, or with a capital letter.
HintQueries == ChatQueries \ {QueryHello, QueryCats}

\* C7: with no chunks in the index when route is called, an auto request is
\* handled as a general query whatever the query is: no search is run, the
\* LLM is called without chunks, and the response has mode = general and
\* sources = [].
C7_EmptyIndexAutoIsGeneral ==
    /\ \A c \in InFlight :
          (c.requestedMode = "auto" /\ ~c.hasDocuments) =>
              /\ c.pc = "llm"
              /\ c.mode = "general"
              /\ c.retrieved = <<>>
              /\ c.searchCalls = 0
    /\ \A c \in Answered :
          (c.requestedMode = "auto" /\ ~c.hasDocuments) =>
              /\ c.mode = "general"
              /\ c.searchCalls = 0
              /\ res.body.mode = "general"
              /\ res.body.sources = <<>>

\* An auto request with a hint term in its query, sent while a document is
\* registered but the index holds no chunks, has been answered.
C7_Witness ==
    /\ res.op = "chat"
    /\ res.status = 200
    /\ res.request.requestedMode = "auto"
    /\ ~res.request.hasDocuments
    /\ res.request.query \in HintQueries
    /\ res.body.mode = "general"
    /\ documents # <<>>
    /\ chunks = <<>>

\* C8, as claimed: every auto request whose query holds a hint term
\* (case-insensitive substring) resolves to rag.
C8_HintResolvesToRagClaimed ==
    /\ \A c \in InFlight :
          (c.requestedMode = "auto" /\ c.query \in HintQueries) => c.mode = "rag"
    /\ \A c \in Answered :
          (c.requestedMode = "auto" /\ c.query \in HintQueries) => res.body.mode = "rag"

\* C8: when the index holds at least one chunk as route is called, every
\* auto request whose query holds a hint term (case-insensitive substring)
\* resolves to rag without the relevance check: it is handled by
\* handleRAGQuery and its response has mode = rag.
C8_HintResolvesToRag ==
    /\ \A c \in InFlight :
          (c.requestedMode = "auto" /\ c.hasDocuments /\ c.query \in HintQueries) =>
              /\ c.mode = "rag"
              /\ ~c.probed
              /\ c.pc = "retrieve" \/ (c.pc = "llm" /\ c.retrieved # <<>>)
    /\ \A c \in Answered :
          (c.requestedMode = "auto" /\ c.hasDocuments /\ c.query \in HintQueries) =>
              /\ c.mode = "rag"
              /\ ~c.probed
              /\ res.body.mode = "rag"

\* An auto request whose query holds the hint term "file" inside the word
\* "profile" has been answered from the chunks of a document.
C8_Witness ==
    /\ res.op = "chat"
    /\ res.status = 200
    /\ res.request.requestedMode = "auto"
    /\ res.request.hasDocuments
    /\ res.request.query = QueryProfile
    /\ res.body.mode = "rag"
    /\ res.body.sources # <<>>

\* C9: an auto request without a hint term, sent while the index holds
\* chunks, is decided by hybridSearch(query, 1) alone: it resolves to rag if
\* the search returned a top result with score > 0.15, and to general
\* otherwise (no result, or a top score of 0.15 or less).
C9_ProbeDecides ==
    \A c \in InFlight \cup Answered :
        (c.requestedMode = "auto" /\ c.hasDocuments /\ ~IsDocumentQuery(c.query) /\ c.pc # "probe") =>
            /\ c.probed
            /\ c.searchCalls >= 1
            /\ Len(c.probe) <= ProbeTopK
            /\ IF Len(c.probe) > 0 /\ c.probe[1].score * 100 > 15 * ScoreScale
               THEN c.mode = "rag"
               ELSE c.mode = "general"

\* An auto request whose top result scored exactly 0.15 has been answered
\* as a general query.
C9_Witness ==
    /\ res.op = "chat"
    /\ res.status = 200
    /\ res.request.requestedMode = "auto"
    /\ res.request.hasDocuments
    /\ res.request.probed
    /\ Len(res.request.probe) = 1
    /\ res.request.probe[1].score * 100 = 15 * ScoreScale
    /\ res.body.mode = "general"
    /\ res.body.sources = <<>>

\* C10: a rag request sent while the index holds no chunks is answered by
\* route itself with the fixed refusal message, mode = error and
\* sources = []: it is never in flight, so neither hybridSearch nor the LLM
\* is called for it.
C10_RagRefusedOnEmptyIndex ==
    /\ \A c \in InFlight : c.requestedMode = "rag" => c.hasDocuments
    /\ (res.op = "chat" /\ res.request.requestedMode = "rag" /\ ~res.request.hasDocuments) =>
          /\ res.status = 200
          /\ res.body.answer = RefusalMessage
          /\ res.body.mode = "error"
          /\ res.body.sources = <<>>
          /\ res.request.searchCalls = 0
          /\ res.request.llmCalls = 0

\* A rag request has been refused after the last document was removed.
C10_Witness ==
    /\ res.op = "chat"
    /\ res.request.requestedMode = "rag"
    /\ ~res.request.hasDocuments
    /\ res.body.mode = "error"
    /\ evicted
    /\ documents = <<>>

\* The hits of a list with at least lowest hundredths of score, in order.
AtLeast(hits, lowest) == SelectSeq(hits, LAMBDA h : h.score * 100 >= lowest * ScoreScale)

\* The hits C11 says grounded handling answers from.
SelectedSources(hits) ==
    IF AtLeast(hits, 15) # <<>> THEN AtLeast(hits, 15)
    ELSE SubSeq(AtLeast(hits, 10), 1, Min(Len(AtLeast(hits, 10)), 5))

\* C11: grounded handling answers from hits = hybridSearch(query, 8): from
\* the hits with score >= 0.15 in rank order if there are any, otherwise
\* from the first at most 5 hits with score >= 0.10 in rank order; if there
\* are none of those either, it answers the fixed no-relevant-results
\* message with sources = [] and noRelevantResults = true without calling
\* the LLM.
C11_SourcesSelection ==
    /\ \A c \in InFlight :
          (c.mode = "rag" /\ c.pc = "llm") =>
              /\ Len(c.hits) <= 8
              /\ c.retrieved = SelectedSources(c.hits)
              /\ c.retrieved # <<>>
    /\ \A c \in Answered :
          (c.mode = "rag" /\ res.body.mode = "rag") =>
              LET selected == SelectedSources(c.hits)
              IN  /\ Len(res.body.sources) = Len(selected)
                  /\ \A i \in DOMAIN selected :
                        /\ res.body.sources[i].id = i
                        /\ res.body.sources[i].content = selected[i].content
                        /\ res.body.sources[i].source = selected[i].metadata.filename
                        /\ res.body.sources[i].chunkIndex = selected[i].metadata.chunkIndex
                  /\ IF selected = <<>>
                     THEN /\ res.body.answer = NoRelevantMessage
                          /\ res.body.noRelevantResults = TRUE
                          /\ c.llmCalls = 0
                     ELSE /\ res.body.answer = LlmAnswer
                          /\ res.body.noRelevantResults = Undefined
                          /\ c.llmCalls = 1

\* A grounded request whose eight hits all scored in [0.10, 0.15) has been
\* answered from the first five.
C11_Witness ==
    /\ res.op = "chat"
    /\ res.status = 200
    /\ res.body.mode = "rag"
    /\ Len(res.request.hits) = 8
    /\ AtLeast(res.request.hits, 15) = <<>>
    /\ Len(AtLeast(res.request.hits, 10)) = 8
    /\ Len(res.body.sources) = 5

(***************************************************************************)
(* Properties of the initialization specification                          *)
(***************************************************************************)
\* C16: embedder initialization is single-flight: pipeline(...) is called at
\* most once however initialize, generateEmbedding, generateEmbeddingsBatch,
\* addDocument and the searches interleave; every call that waits for the
\* initialization waits for that one call; and every call of this.embedder
\* is made on the loaded pipeline, never on null.
C16_SingleFlight ==
    /\ loads <= 1
    /\ (loads = 0) <=> (initPromise = "null")
    /\ (embedder = "pipeline") <=> initialized
    /\ initialized => initPromise = "fulfilled"
    /\ \A e \in DOMAIN embeds :
          /\ embeds[e].pc = "awaitInit" => (loads = 1 /\ initPromise # "null")
          /\ embeds[e].pc \in {"awaitEmbedder", "done"} =>
                (embeds[e].handle = "pipeline" /\ embedder = "pipeline")
          /\ embeds[e].pc = "failed" => initPromise = "rejected"
    /\ \A d \in DOMAIN adds :
          /\ adds[d].pc = "awaitInit" => (loads = 1 /\ initPromise # "null")
          /\ adds[d].pc \in {"awaitBatch", "done"} => embedder = "pipeline"
    /\ search.pc = "awaitEmbedding" => embedder = "pipeline"

\* Two direct calls and an upload wait for the one initialization that the
\* first of them started.
C16_Witness ==
    /\ Len(embeds) = 2
    /\ embeds[1].pc = "awaitInit"
    /\ embeds[2].pc = "awaitInit"
    /\ embeds[1].kind # embeds[2].kind
    /\ \E d \in DOMAIN adds : adds[d].pc = "awaitInit"
    /\ initPromise = "pending"
    /\ loads = 1

(***************************************************************************)
(* Properties of the conversation specification                            *)
(***************************************************************************)
\* The conversation objects that requests have worked on.
Answering(n) == turns[n].conv # 0

\* C13: after every completed chat request the message list of its
\* conversation holds at most 20 entries, and they are the most recently
\* appended messages, in the order they were appended.
C13_HistoryBounded ==
    (res.op = "chat" /\ Answering(res.turn)) =>
        LET conversation == conversations[turns[res.turn].conv]
            held == Len(conversation.messages)
        IN  /\ held = Min(20, conversation.appended)
            /\ \A i \in 1..held :
                  conversation.messages[i].seq = conversation.appended - held + i


\* C14: turns on one conversation are serial: in every conversation, the
\* assistant reply to a user message comes right after that message, with no
\* message of another turn between them, however the requests that share
\* the conversationId interleave.
C14_TurnsSerial ==
    \A k \in DOMAIN conversations :
        LET messages == conversations[k].messages
        IN  \A i \in DOMAIN messages, j \in DOMAIN messages :
                ( /\ i < j
                  /\ messages[i].role = "user"
                  /\ messages[j].role = "assistant"
                  /\ messages[i].turn = messages[j].turn ) => j = i + 1

\* C15: a chat request whose client went away while its LLM call was in
\* flight appends no assistant message to any conversation: the call is
\* aborted and the request ends without a reply in the history.
C15_CancelledAppendsNothing ==
    \A n \in DOMAIN turns :
        turns[n].closed =>
            /\ turns[n].status # 200
            /\ \A k \in DOMAIN conversations :
                  \A i \in DOMAIN conversations[k].messages :
                      ~( /\ conversations[k].messages[i].role = "assistant"
                         /\ conversations[k].messages[i].turn = n )

(***************************************************************************)
(* Properties of the gateway specification                                 *)
(***************************************************************************)
\* C12: when no LLM provider is available (the environment holds no API key
\* of a hosted provider and the Ollama server does not answer), a chat
\* request does not fail with its LLM call: it is answered 200 with the
\* degraded answer of generateLocalResponse.
C12_NoProviderDegrades ==
    apiKeys = {} =>
        \A n \in DOMAIN turns :
            turns[n].pc = TurnOver => ~(turns[n].status = 500 /\ turns[n].failedAt = "llm")

(***************************************************************************)
(* Properties of the upload specification                                  *)
(***************************************************************************)
\* C17: a file of a batch upload that fails (unsupported type, extraction
\* error, embedding error) does not abort the batch: the request is answered
\* 200, every file submitted has its own result entry, an error for the
\* file that failed, and processed + failed is the number of files.
C17_PerFileErrors ==
    (res.op = "upload" /\ \E i \in DOMAIN res.files : fileFilter(UploadFiles[res.files[i]])) =>
        /\ res.status = 200
        /\ Len(res.results) = Len(res.files)
        /\ res.processed + res.failed = Len(res.files)
        /\ \A i \in DOMAIN res.files :
              res.results[i].filename = UploadFiles[res.files[i]].originalname

\* C18: in every reachable state of the index no two chunks have the same
\* id, whatever file names the clients present in their uploads.
C18_ChunkIdsUnique ==
    \A i, j \in DOMAIN chunks : i # j => chunks[i].id # chunks[j].id

(***************************************************************************)
(* Properties of the chunker specification                                 *)
(***************************************************************************)
\* C19: every chunk that createChunks makes of a text whose sentences are
\* each at most chunkSize characters long has a trimmed content of at most
\* chunkSize characters, the chunks that begin with the overlap words of
\* the chunk before them included.
C19_ChunkSizeBounded ==
    (/\ chunker.pc = "done"
     /\ \A i \in DOMAIN chunker.sentences : StrLength(chunker.sentences[i]) <= chunkSize) =>
        \A c \in DOMAIN chunker.chunks : StrLength(chunker.chunks[c].content) <= chunkSize

(***************************************************************************)
(* The range of the combined score                                         *)
(***************************************************************************)
\* The hybridSearch results that the chat request in flight, or the one just
\* answered, has received: the probe's and the retrieval's.
SearchHits == UNION { Range(c.hits) \cup Range(c.probe) : c \in InFlight \cup Answered }

\* The cosines of the model's vectors, the keyword scores of queries of up
\* to three keywords, and the phrase boosts hybridSearch can accumulate.
VectorScores == { cosineSimilarity(a, b) : a \in UnitVectors, b \in UnitVectors }

KeywordScores == { (matches * ScoreScale) \div n : <<matches, n>> \in { mn \in (0..3) \X (1..3) : mn[1] <= mn[2] } }

PhraseBoosts == { found * WordBoost + phrase * PhraseBoost : found \in 0..ImportantWordCount, phrase \in 0..1 }

\* The bounds claimed for the score: -0.45 and 0.85.
ClaimedLowestScore == -((45 * ScoreScale) \div 100)

ClaimedHighestScore == (85 * ScoreScale) \div 100

\* The bounds of the weighted sum: -0.6 and 1.
LowestScore == -((6 * ScoreScale) \div 10)

HighestScore == ScoreScale

\* C20, as claimed: every combined score that hybridSearch returns lies in
\* [-0.45, 0.85].
C20_ScoreRangeClaimed ==
    \A h \in SearchHits : ClaimedLowestScore <= h.score /\ h.score <= ClaimedHighestScore

\* C20, amended: every combined score that hybridSearch returns lies in
\* [-0.6, 1.0], for every vector score in [-1, 1], keyword score in [0, 1]
\* and phrase boost the scoring can produce; the part of the phrase boost
\* that enters the score lies in [0, 0.15], and both ends of the range are
\* scores of the weighted sum.
C20_ScoreRange ==
    /\ \A h \in SearchHits :
          /\ -ScoreScale <= h.vectorScore /\ h.vectorScore <= ScoreScale
          /\ 0 <= h.keywordScore /\ h.keywordScore <= ScoreScale
          /\ 0 <= h.phraseBoost
          /\ LowestScore <= h.score /\ h.score <= HighestScore
    /\ \A v \in VectorScores, k \in KeywordScores, b \in PhraseBoosts :
          /\ 0 <= Min(b, BoostCap) /\ Min(b, BoostCap) <= BoostCap
          /\ LowestScore <= combinedScore(v, k, b)
          /\ combinedScore(v, k, b) <= HighestScore
    /\ \E v \in VectorScores, k \in KeywordScores, b \in PhraseBoosts :
          combinedScore(v, k, b) = LowestScore
    /\ \E v \in VectorScores, k \in KeywordScores, b \in PhraseBoosts :
          combinedScore(v, k, b) = HighestScore

\* A search of a chat request has returned a chunk whose combined score is
\* above 0.85: the query's vector is the chunk's, and its keyword is one of
\* the chunk's keywords and a part of its content.
C20_Witness ==
    \E h \in SearchHits :
        /\ h.score > ClaimedHighestScore
        /\ h.vectorScore = ScoreScale
        /\ h.keywordScore = ScoreScale
        /\ h.phraseBoost = WordBoost

(***************************************************************************)
(* Properties of the search results                                        *)
(***************************************************************************)
\* C21: the phraseBoost that every result of hybridSearch carries lies in
\* [0, 0.15]: 0.05 for each important query word found in the content, 0.10
\* for the phrase of the first two, and no more than 0.15 in all.
C21_PhraseBoostClamped ==
    (res.op = "hybridSearch" /\ res.ok) =>
        \A i \in DOMAIN res.hits :
            0 <= res.hits[i].phraseBoost /\ res.hits[i].phraseBoost <= BoostCap

\* The result object of every chunk of the index for the query of the
\* response, in index order.
ScoredIndex ==
    [i \in DOMAIN chunks |->
        ScoredChunk(chunks[i], EmbedderOutput(Substring0(res.query, EmbedMaxChars)),
                    extractKeywords(res.query))]

\* The place of chunk i in the order by descending score, then by position
\* in the index; scores holds the chunks' scores in index order.
RankOf(scores, i) ==
    1 + Cardinality({ j \in DOMAIN scores :
                        \/ scores[j] > scores[i]
                        \/ scores[j] = scores[i] /\ j < i })

\* C22: hybridSearch(query, k) returns at most min(k, number of chunks)
\* results, in non-increasing order of score, results of equal score in
\* their order in the index; what it returns is a function of the index and
\* the query: the first k chunks of that order, each with its scores.
C22_SearchDeterministic ==
    (res.op = "hybridSearch" /\ res.ok) =>
        LET scored == ScoredIndex
            scores == [i \in DOMAIN scored |-> scored[i].score]
        IN  /\ Len(res.hits) = Min(res.topK, Len(chunks))
            /\ \A r \in 1..(Len(res.hits) - 1) : res.hits[r].score >= res.hits[r + 1].score
            /\ \A r \in DOMAIN res.hits :
                  \E i \in DOMAIN chunks : RankOf(scores, i) = r /\ res.hits[r] = scored[i]

\* A search cut at topK has returned results of equal score: the first
\* chunks of a document whose chunks all score the same.
C22_Witness ==
    /\ res.op = "hybridSearch" /\ res.ok
    /\ Len(res.hits) = res.topK /\ res.topK > 1 /\ res.topK < Len(chunks)
    /\ res.hits[1].score = res.hits[2].score
    /\ res.hits[1].metadata.chunkIndex < res.hits[2].metadata.chunkIndex
    /\ LET scored == ScoredIndex
       IN  \E i \in DOMAIN chunks : scored[i].score < res.hits[1].score

(***************************************************************************)
(* Properties of the ranking specification                                 *)
(***************************************************************************)
\* The chunk with the query's keyword, and the one without it.
ChunkX == RankChunks[2]

ChunkY == RankChunks[1]

\* hybridSearch(query, 2) has just returned.
RankedBoth == res.op = "hybridSearch" /\ res.ok /\ res.topK = 2

\* The vector score that the response gives the chunk of that id.
VectorScoreOf(id) ==
    LET i == CHOOSE i \in DOMAIN res.hits : res.hits[i].id = id
    IN  res.hits[i].vectorScore

\* C23, as claimed: with one document of two chunks in the index, X holding
\* the query's first keyword twice and Y not holding it, hybridSearch(query,
\* 2) returns X first, whatever vectors the embedder gives X and Y.
C23_KeywordChunkFirstClaimed ==
    RankedBoth => res.hits[1].id = ChunkX.id

\* C23, amended: hybridSearch(query, 2) returns X first whenever Y holds
\* none of the query's keywords and the vector score of X is at least that
\* of Y; X then scores more than Y.
C23_KeywordChunkFirst ==
    (RankedBoth /\ VectorScoreOf(ChunkX.id) >= VectorScoreOf(ChunkY.id)) =>
        /\ Len(res.hits) = 2
        /\ res.hits[1].id = ChunkX.id
        /\ res.hits[2].id = ChunkY.id
        /\ res.hits[1].score > res.hits[2].score
        /\ res.hits[2].keywordScore = 0 /\ res.hits[2].phraseBoost = 0

\* The search has returned X, the second chunk of the document, before Y,
\* both with the vector score 1/4: the keyword decides.
C23_Witness ==
    /\ RankedBoth
    /\ res.hits[1].id = ChunkX.id
    /\ res.hits[1].metadata.chunkIndex = 1
    /\ res.hits[1].vectorScore = ScoreScale \div 4
    /\ res.hits[2].vectorScore = ScoreScale \div 4
    /\ res.hits[1].keywordScore = ScoreScale

(***************************************************************************)
(* Properties of the batch specification                                   *)
(***************************************************************************)
\* C24: every chunk of the index carries the embedding of its own content,
\* in whatever order the embedder calls of its batch resolved, and the
\* chunks of a document are in the index in ascending chunkIndex order,
\* those of the call's chunk list.
C24_EmbeddingsByPosition ==
    /\ \A i \in DOMAIN chunks :
          chunks[i].embedding = embedFn[Substring0(chunks[i].content, EmbedMaxChars)]
    /\ \A d \in DOMAIN adds :
          Returned(d) =>
              LET own == OwnChunks(d)
              IN  /\ IdsOf(own) = IdsOf(InputChunks(d))
                  /\ \A k \in DOMAIN own :
                        /\ own[k].metadata.chunkIndex = k - 1
                        /\ own[k].content = InputChunks(d)[k].content
                        /\ own[k].embedding = adds[d].arrivals[
                               CHOOSE a \in DOMAIN adds[d].arrivals :
                                   adds[d].arrivals[a].position = k].output

\* An addDocument call has returned whose second embedder call resolved
\* before its first, the two with different outputs, and its two chunks are
\* in the index.
C24_Witness ==
    \E d \in DOMAIN adds :
        /\ Returned(d)
        /\ Len(adds[d].arrivals) = 2
        /\ adds[d].arrivals[1].position = 2
        /\ adds[d].arrivals[2].position = 1
        /\ adds[d].arrivals[1].output # adds[d].arrivals[2].output
        /\ Len(OwnChunks(d)) = 2

(***************************************************************************)
(* Properties of the keyword specification                                 *)
(***************************************************************************)
\* The tokens of the text of the call: the lower-case words of more than two
\* characters that are no stop-words, as they follow each other in the text.
TextTokens == KeywordTokens(keywordCall.text)

\* The place in the text of the first appearance of token w.
FirstPlace(w) == CHOOSE i \in DOMAIN TextTokens :
                     TextTokens[i] = w /\ \A j \in 1..(i - 1) : TextTokens[j] # w

\* C25: extractKeywords(text) returns at most 20 distinct lower-case tokens,
\* none a stop-word and none of one or two characters, by descending
\* frequency in the text, tokens of equal frequency in the order of their
\* first appearance, for every text of letters, digits and underscores.
C25_KeywordOrder ==
    keywordCall.pc = "done" =>
        LET kws == keywordCall.keywords
        IN  /\ Len(kws) <= MaxKeywords
            /\ Len(kws) = Min(MaxKeywords, Cardinality(Range(TextTokens)))
            /\ \A i \in DOMAIN kws :
                  /\ kws[i] \in Range(TextTokens)
                  /\ kws[i] = ToLowerCase(kws[i])
                  /\ kws[i] \notin stopWords
                  /\ Len(kws[i]) > 2
            /\ \A i, j \in DOMAIN kws :
                  i < j =>
                      /\ kws[i] # kws[j]
                      /\ \/ WordFreq(TextTokens, kws[i]) > WordFreq(TextTokens, kws[j])
                         \/ /\ WordFreq(TextTokens, kws[i]) = WordFreq(TextTokens, kws[j])
                            /\ FirstPlace(kws[i]) < FirstPlace(kws[j])

(***************************************************************************)
(* createChunks keeps the sentences                                        *)
(***************************************************************************)
\* The words of sentence s are the words of content from place o on.
MatchesAt(content, s, o) ==
    /\ o + Len(s) - 1 <= Len(content)
    /\ \A i \in DOMAIN s : content[o + i - 1] = s[i]

\* Sentence s is whole in content.
ContainsSentence(content, s) == \E o \in DOMAIN content : MatchesAt(content, s, o)

RECURSIVE SentencesPlaced(_, _, _, _, _)
\* The sentences from the k-th on are whole in the chunks cs, one after the
\* other and none over another, from place o of chunk c on.
SentencesPlaced(cs, sentences, k, c, o) ==
    IF k > Len(sentences) THEN TRUE
    ELSE IF c > Len(cs) THEN FALSE
    ELSE IF o > Len(cs[c].content) THEN SentencesPlaced(cs, sentences, k, c + 1, 1)
    ELSE IF MatchesAt(cs[c].content, sentences[k], o)
         THEN SentencesPlaced(cs, sentences, k + 1, c, o + Len(sentences[k]))
         ELSE SentencesPlaced(cs, sentences, k, c, o + 1)

\* C26: createChunks neither splits nor loses a sentence: every sentence of
\* the splitter is whole in at least one chunk, the chunks keep the order
\* of the sentences, a sentence longer than chunkSize is whole in one chunk,
\* an oversize one, and a text without sentences gives no chunk.
C26_SentencesKept ==
    chunker.pc = "done" =>
        LET sentences == chunker.sentences
            cs == chunker.chunks
        IN  /\ \A k \in DOMAIN sentences :
                  \E c \in DOMAIN cs :
                      /\ ContainsSentence(cs[c].content, sentences[k])
                      /\ StrLength(sentences[k]) > chunkSize => StrLength(cs[c].content) > chunkSize
            /\ SentencesPlaced(cs, sentences, 1, 1, 1)
            /\ \A c \in DOMAIN cs : cs[c].chunkIndex = c - 1 /\ cs[c].content # EmptyString
            /\ (sentences = <<>>) <=> (cs = <<>>)

\* createChunks has returned three chunks for three sentences, the second
\* one longer than chunkSize: it is whole in the second chunk, behind the
\* overlap words of the first.
C26_Witness ==
    /\ chunker.pc = "done"
    /\ chunker.sentences = <<SentenceWords, SentenceLong, SentenceShort>>
    /\ Len(chunker.chunks) = 3
    /\ MatchesAt(chunker.chunks[2].content, SentenceLong, 4)
    /\ StrLength(chunker.chunks[2].content) > chunkSize

(***************************************************************************)
(* More properties of the chat specification                               *)
(***************************************************************************)
\* C27: in every grounded response that carries sources, retrievedCount is
\* the number of the sources, on the path of the relevance threshold and on
\* the fallback path alike.
C27_RetrievedCountIsSources ==
    (/\ res.op = "chat" /\ res.status = 200
     /\ res.body.mode = "rag"
     /\ res.body.sources # <<>>) =>
        res.body.retrievedCount = Len(res.body.sources)

(***************************************************************************)
(* More properties of the conversation specification                       *)
(***************************************************************************)
\* C28: the messages sent to the LLM for a chat turn are the system prompt,
\* then at most six messages, the most recent ones of earlier turns, then
\* the user message of the turn: that message is there once, as the last
\* one, and not inside the history window as well.
C28_CurrentMessageOnce ==
    \A n \in DOMAIN turns :
        turns[n].pc = "llm" =>
            LET sent == turns[n].sent
            IN  /\ Len(sent) >= 2 /\ Len(sent) <= HistoryWindow + 2
                /\ sent[1].role = "system"
                /\ sent[Len(sent)] = [role |-> "user", content |-> turns[n].message, turn |-> n]
                /\ \A i \in 2..(Len(sent) - 1) : sent[i].turn # n

\* C29: when routing or the LLM call throws in a chat request, the request
\* is answered 500 and the conversation's message list is what it was
\* before the request: the user message of the failed turn is not left in
\* the history without an assistant reply.
C29_FailedTurnLeavesHistory ==
    \A n \in DOMAIN turns :
        (turns[n].pc = TurnOver /\ turns[n].failedAt # "none") =>
            /\ turns[n].status = 500
            /\ \A i \in DOMAIN conversations[turns[n].conv].messages :
                  conversations[turns[n].conv].messages[i].turn # n

(***************************************************************************)
(* The relevance probe and the retrieval                                   *)
(***************************************************************************)
\* C30: when an auto request is routed to rag because the relevance probe
\* hybridSearch(query, 1) found a top score above the threshold, its
\* grounded response carries at least one source and never
\* noRelevantResults, whatever deletes and clears run between the probe and
\* the retrieval.
C30_ProbedRagHasSources ==
    \A c \in Answered :
        (/\ c.requestedMode = "auto"
         /\ c.probed
         /\ Len(c.probe) > 0
         /\ c.probe[1].score * 100 > 15 * ScoreScale
         /\ c.mode = "rag") =>
            /\ res.body.mode = "rag"
            /\ res.body.sources # <<>>
            /\ res.body.noRelevantResults = Undefined

====
